---- MODULE Spec2Model ----
(***************************************************************************)
(* Model of the message plane of hft-socket-server: the service registry   *)
(* and its dispatcher thread (service_manager.cpp), the interceptor chain  *)
(* and its standard interceptors (interceptor.cpp) and the message         *)
(* constructors with their process-wide sequence counter (message.cpp).    *)
(***************************************************************************)
EXTENDS Integers, Sequences, FiniteSets, TLC

(***************************************************************************)
(* Bounds of the model (not program constants).                            *)
(***************************************************************************)
MaxMsgs == 2
MaxObjs == 2
MaxConstructed == 3
MaxWallUs == 2
MaxChain == 3
MaxRate == 2
MaxWindows == 2
MaxCalls == 4
MaxStr == 2
MaxSamples == 3
MaxRecords == 5
MaxThreadCount == 2
MaxConnections == 2
MaxClients == 2
MaxFrames == 2

(***************************************************************************)
(* Program constants.                                                      *)
(***************************************************************************)
max_batch == 100

Names == {"OrderMatching", "MarketData"}
Callers == {"main", "ctl"}
Threads == {"t1", "t2"}
Workers == {"w1", "w2"}
NoObj == 0

VARIABLES
    \* ServiceManager (service_manager.hpp:56-64)
    services_,          \* name -> object id of the registered service, NoObj if none
    obj_running,        \* object id -> IService::isRunning() of that service object
    next_obj,           \* number of service objects created so far
    running_,           \* ServiceManager::running_
    services_mutex_,    \* holder of services_mutex_: "free", a caller, or "dispatcher"
    message_queue_,     \* the dispatcher FIFO of <<service_name, message>>
    thread_joinable,    \* message_processor_thread_.joinable()
    disp_pc,            \* position of the dispatcher thread
    disp_item,          \* the <<service_name, message>> the dispatcher popped
    disp_service,       \* the shared_ptr the dispatcher got from getService
    processed,          \* local counter of processMessageQueue
    caller_pc,          \* position of each caller thread
    next_msg,           \* number of message objects handed to send/broadcast so far
    enqueued,           \* history: the <<service_name, message>> of every send, in order
    delivered,          \* history: every call of IService::processMessage
    owed,               \* history: the sends since which the registry has stayed running
                        \* and the named service registered and running
    \* Message (message.hpp:67) and the threads constructing messages
    global_sequence_counter_,   \* Message::global_sequence_counter_
    wall_us,            \* the system clock, microseconds since the epoch
    ctor_pc,            \* position of each constructing thread in Message::Message
    ctor_msg,           \* the message each thread is constructing
    constructed,        \* history: the messages constructed, in the order of fetch_add
    \* InterceptorChain and InterceptorContext (interceptor.hpp:40-55)
    interceptors_,      \* InterceptorChain::interceptors_
    ctx,                \* the InterceptorContext being processed, NoCtx if none
    chain_ret,          \* what InterceptorChain::process returned for ctx
    chain_trace,        \* history: the intercept calls process made, with their results
    \* ThrottlingInterceptor (interceptor.hpp:80-83)
    max_messages_per_second_,
    message_count_,
    last_check_,
    now,                \* the steady clock, in milliseconds
    thr_pc,             \* position of each worker in ThrottlingInterceptor::intercept
    thr_now,            \* the local now of each worker
    thr_elapsed,        \* the local elapsed of each worker
    thr_last,           \* history: the last call that finished, as it saw the window
    thr_log,            \* history: the resets and the continue results, in order
    \* ValidationInterceptor applied to one context
    val_ctx,
    val_out,
    \* the codec (message.cpp) applied to one message or one received byte string
    cod_pc,             \* "built", "encoded", "raw", "decoded" or "handled"
    cod_msg,            \* the message given to serialize, NullMsg if none
    cod_data,           \* the bytes given to the decoder
    cod_out,            \* what createMessage and deserialize returned
    cod_cb,             \* what MessageHandler::handleMessage gave the callback
    \* PerformanceMonitor (socket_server.hpp:128-136), a recording thread and a
    \* reading thread
    latency_samples_,   \* PerformanceMonitor::latency_samples_
    stats_mutex_,       \* holder of stats_mutex_: "free" or "reader"
    max_samples,        \* the capacity recordLatency compares the size with
    mon_pc,             \* position of the reading thread inside getP95/getP99Latency
    mon_ret,            \* what the most recent call on the monitor returned
    mon_recorded,       \* history: the values recorded since construction or reset
    mon_feed,           \* 0: any value may be recorded; k: the k-th order of 1..100
    \* SocketServer (socket_server.hpp:57-77), its threads and the peers
    srv_running_,       \* SocketServer::running_
    server_fd_,         \* the listening socket: "unset" (-1), "open", "closed"
    epoll_fd_,          \* the epoll descriptor: "unset" (-1), "open", "closed"
    epoll_reg,          \* registration of server_fd_ in epoll_fd_: "none", "LT", "ET"
    connection_count_,  \* SocketServer::connection_count_
    backlog,            \* connections completed by the kernel, waiting for accept()
    srv_arrived,        \* frames the peers have sent on those connections
    accept_pc,          \* position of accept_thread_
    worker_pc,          \* position of each thread of worker_threads_
    srv_ctl_pc          \* position of the thread calling initialize/start/stop

smVars == <<services_, obj_running, next_obj, running_, services_mutex_,
            message_queue_, thread_joinable, disp_pc, disp_item, disp_service,
            processed, caller_pc, next_msg, enqueued, delivered>>

msgVars == <<global_sequence_counter_, wall_us, ctor_pc, ctor_msg, constructed>>
chainVars == <<interceptors_, ctx, chain_ret, chain_trace>>
thrVars == <<max_messages_per_second_, message_count_, last_check_, now>>
thrWorkerVars == <<thr_pc, thr_now, thr_elapsed, thr_last, thr_log>>
valVars == <<val_ctx, val_out>>
codVars == <<cod_pc, cod_msg, cod_data, cod_out, cod_cb>>
monVars == <<latency_samples_, stats_mutex_, max_samples, mon_pc, mon_ret, mon_recorded,
             mon_feed>>
srvVars == <<srv_running_, server_fd_, epoll_fd_, epoll_reg, connection_count_, backlog,
             srv_arrived, accept_pc, worker_pc, srv_ctl_pc>>

vars == <<smVars, owed, msgVars, chainVars, thrVars, thrWorkerVars, valVars, codVars,
          monVars, srvVars>>

Objs == 1..MaxObjs

(***************************************************************************)
(* Sequence helpers.                                                       *)
(***************************************************************************)
Last(s) == s[Len(s)]

RECURSIVE SelectFor(_, _)
SelectFor(s, n) ==
    IF s = <<>> THEN <<>>
    ELSE IF Head(s)[1] = n THEN <<Head(s)[2]>> \o SelectFor(Tail(s), n)
         ELSE SelectFor(Tail(s), n)

(***************************************************************************)
(* Messages (message.hpp, message.cpp).  A double is a record: NaN, or a   *)
(* number; comparisons with NaN are false as in IEEE-754.                  *)
(***************************************************************************)
D(v) == [nan |-> FALSE, v |-> v]
NaN == [nan |-> TRUE, v |-> 0]
DLt(a, b) == ~a.nan /\ ~b.nan /\ a.v < b.v
DLe(a, b) == ~a.nan /\ ~b.nan /\ a.v <= b.v
DGe(a, b) == ~a.nan /\ ~b.nan /\ a.v >= b.v
DGt(a, b) == ~a.nan /\ ~b.nan /\ a.v > b.v

ORDER_NEW == 1
ORDER_CANCEL == 2
ORDER_REPLACE == 3
ORDER_FILL == 4
MARKET_DATA == 5
HEARTBEAT == 6
ERROR == 9
NORMAL == 2

\* std::atomic<uint64_t>::fetch_add(1): the value before, and the value stored
\* (the counter starts at 0 and the runs explored stay far below 2^64, where
\* it would wrap)
FetchAddNoIncrement(counter) == [ret |-> counter, new |-> counter]
FetchAdd(counter) == [ret |-> counter, new |-> counter + 1]

NullMsg == [kind |-> "null"]

OrderMsg(type, seq, ts, order_id, symbol, price, quantity) ==
    [kind |-> "Order", type |-> type, priority |-> NORMAL, seq |-> seq, ts |-> ts,
     client_id |-> 0, order_id |-> order_id, symbol |-> symbol, price |-> price,
     quantity |-> quantity, is_buy |-> TRUE]

MarketDataMsg(type, seq, ts, symbol, bid, ask) ==
    [kind |-> "MarketData", type |-> type, priority |-> NORMAL, seq |-> seq, ts |-> ts,
     client_id |-> 0, symbol |-> symbol, bid |-> bid, ask |-> ask,
     bid_size |-> 1000, ask_size |-> 1000]

HeartbeatMsg(type, seq, ts) ==
    [kind |-> "Heartbeat", type |-> type, priority |-> NORMAL, seq |-> seq, ts |-> ts,
     client_id |-> 0]

ErrorMsg(type, seq, ts) ==
    [kind |-> "Error", type |-> type, priority |-> NORMAL, seq |-> seq, ts |-> ts,
     client_id |-> 0, error_code |-> 0, error_message |-> ""]

(***************************************************************************)
(* InterceptorContext and the standard interceptors (interceptor.cpp).     *)
(* An interceptor maps a context to [ret, ctx].                            *)
(***************************************************************************)
NoCtx == [message |-> NullMsg, metadata |-> <<>>, live |-> FALSE, fresh |-> FALSE]

\* InterceptorContext(msg); fresh records that msg came straight from a constructor
NewContext(msg, fresh) ==
    [message |-> msg, metadata |-> <<>>, live |-> TRUE, fresh |-> fresh]

SetMetadata(c, key, value) ==
    [c EXCEPT !.metadata =
        [k \in (DOMAIN c.metadata) \cup {key} |->
            IF k = key THEN value ELSE c.metadata[k]]]

HasMetadata(c, key) == key \in DOMAIN c.metadata

\* getMetadata: the value, or "" when the key is not set
GetMetadata(c, key) == IF key \in DOMAIN c.metadata THEN c.metadata[key] ELSE ""

Reject(c, key, value) == [ret |-> FALSE, ctx |-> SetMetadata(c, key, value)]
Accept(c, key, value) == [ret |-> TRUE, ctx |-> SetMetadata(c, key, value)]

\* the checks on a dynamic_pointer_cast<OrderMessage>; "" when all pass
OrderErrorNoSymbolCheck(m) ==
    IF m.order_id = 0 THEN "Invalid order ID"
    ELSE IF DLe(m.price, D(0)) THEN "Invalid price"
    ELSE IF m.quantity = 0 THEN "Invalid quantity"
    ELSE ""
OrderError(m) ==
    IF m.order_id = 0 THEN "Invalid order ID"
    ELSE IF m.symbol = "" THEN "Empty symbol"
    ELSE IF DLe(m.price, D(0)) THEN "Invalid price"
    ELSE IF m.quantity = 0 THEN "Invalid quantity"
    ELSE ""

\* the checks on a dynamic_pointer_cast<MarketDataMessage>; "" when all pass
MarketDataErrorCrossedOnly(m) ==
    IF m.symbol = "" THEN "Empty symbol"
    ELSE IF DLt(m.bid, D(0)) \/ DLt(m.ask, D(0)) THEN "Invalid bid/ask"
    ELSE IF DGt(m.bid, m.ask) THEN "Bid >= Ask"
    ELSE ""
MarketDataError(m) ==
    IF m.symbol = "" THEN "Empty symbol"
    ELSE IF DLt(m.bid, D(0)) \/ DLt(m.ask, D(0)) THEN "Invalid bid/ask"
    ELSE IF DGe(m.bid, m.ask) THEN "Bid >= Ask"
    ELSE ""

\* the switch on getType(): the kind-specific checks, skipped when the cast fails
KindError(m) ==
    IF m.type \in {ORDER_NEW, ORDER_CANCEL, ORDER_REPLACE}
    THEN (IF m.kind = "Order" THEN OrderError(m) ELSE "")
    ELSE IF m.type = MARKET_DATA
    THEN (IF m.kind = "MarketData" THEN MarketDataError(m) ELSE "")
    ELSE ""

ValidationInterceptTimestampFirst(c) ==
    LET m == c.message
    IN  IF m.kind = "null" THEN Reject(c, "error", "Null message")
        ELSE IF m.ts = 0 THEN Reject(c, "error", "Invalid timestamp")
        ELSE IF m.seq = 0 THEN Reject(c, "error", "Invalid sequence number")
        ELSE IF KindError(m) # "" THEN Reject(c, "error", KindError(m))
        ELSE Accept(c, "validation", "passed")
ValidationIntercept(c) ==
    LET m == c.message
    IN  IF m.kind = "null" THEN Reject(c, "error", "Null message")
        ELSE IF m.seq = 0 THEN Reject(c, "error", "Invalid sequence number")
        ELSE IF m.ts = 0 THEN Reject(c, "error", "Invalid timestamp")
        ELSE IF KindError(m) # "" THEN Reject(c, "error", KindError(m))
        ELSE Accept(c, "validation", "passed")

\* the summary the Logger writes: type, seq, client id, priority
LogLine(m) == <<"Processing message: Type=", m.type, ", Seq=", m.seq,
                ", Client=", m.client_id, ", Priority=", m.priority>>

LoggingIntercept(c) ==
    IF c.message.kind = "null" THEN [ret |-> FALSE, ctx |-> c]
    ELSE Accept(c, "log", LogLine(c.message))

\* the latencies (microseconds) the context timer can measure
Latencies == {0, 11}
\* std::to_string(double)
StdToString(lat) == CASE lat = 0 -> "0.000000"
                   [] lat = 11 -> "11.000000"

PerformanceIntercept(c, lat) ==
    LET c1 == SetMetadata(c, "latency_us", StdToString(lat))
    IN  [ret |-> TRUE,
         ctx |-> IF lat > 10
                 THEN SetMetadata(c1, "performance_warning",
                                  "Latency exceeds 10us threshold")
                 ELSE c1]

(***************************************************************************)
(* ThrottlingInterceptor::intercept: elapsed is computed before the lock   *)
(* is taken, the rest runs under throttle_mutex_.                          *)
(***************************************************************************)
WindowMs == 1000

ThrottleElapsed(t, last) == t - last

ThrottleLockedNoLimit(elapsed, t, cnt, last, max) ==
    LET reset == elapsed >= WindowMs
        cnt1 == IF reset THEN 0 ELSE cnt
        last1 == IF reset THEN t ELSE last
    IN  [ret |-> TRUE, count |-> cnt1 + 1, last |-> last1, reset |-> reset,
         key |-> "throttle_status", value |-> "accepted"]
ThrottleLocked(elapsed, t, cnt, last, max) ==
    LET reset == elapsed >= WindowMs
        cnt1 == IF reset THEN 0 ELSE cnt
        last1 == IF reset THEN t ELSE last
    IN  IF cnt1 >= max
        THEN [ret |-> FALSE, count |-> cnt1, last |-> last1, reset |-> reset,
              key |-> "throttled", value |-> "Rate limit exceeded"]
        ELSE [ret |-> TRUE, count |-> cnt1 + 1, last |-> last1, reset |-> reset,
              key |-> "throttle_status", value |-> "accepted"]

\* the whole of intercept on one thread: thr is [count, last]
ThrottlingIntercept(c, thr, t, max) ==
    LET r == ThrottleLocked(ThrottleElapsed(t, thr.last), t, thr.count, thr.last, max)
    IN  [ret |-> r.ret, ctx |-> SetMetadata(c, r.key, r.value),
         thr |-> [count |-> r.count, last |-> r.last]]

(***************************************************************************)
(* InterceptorChain::process.                                              *)
(***************************************************************************)
InterceptorKinds == {"Validation", "Logging", "Performance", "Throttling"}

\* interceptor->intercept(context), by the dynamic type of the interceptor
Intercept(kind, c, thr, env) ==
    CASE kind = "Validation" ->
            [ret |-> ValidationIntercept(c).ret, ctx |-> ValidationIntercept(c).ctx,
             thr |-> thr]
      [] kind = "Logging" ->
            [ret |-> LoggingIntercept(c).ret, ctx |-> LoggingIntercept(c).ctx,
             thr |-> thr]
      [] kind = "Performance" ->
            [ret |-> TRUE, ctx |-> PerformanceIntercept(c, env.lat).ctx, thr |-> thr]
      [] kind = "Throttling" -> ThrottlingIntercept(c, thr, env.now, env.max)

\* if (!interceptor->intercept(context)) return false
ShortCircuitNever(ret) == FALSE
ShortCircuit(ret) == ~ret

RECURSIVE ChainProcessFrom(_, _, _, _, _, _)
ChainProcessFrom(chain, i, c, thr, env, trace) ==
    IF i > Len(chain)
    THEN [ret |-> TRUE, ctx |-> c, thr |-> thr, trace |-> trace]
    ELSE LET r == Intercept(chain[i], c, thr, env)
             t == Append(trace, [idx |-> i, kind |-> chain[i], ret |-> r.ret])
         IN  IF ShortCircuit(r.ret)
             THEN [ret |-> FALSE, ctx |-> r.ctx, thr |-> r.thr, trace |-> t]
             ELSE ChainProcessFrom(chain, i + 1, r.ctx, r.thr, env, t)

ChainProcess(chain, c, thr, env) == ChainProcessFrom(chain, 1, c, thr, env, <<>>)

(***************************************************************************)
(* The state of each component before it is used.                          *)
(***************************************************************************)
NoCall == [valid |-> FALSE]
NoOut == [done |-> FALSE]

MsgIdle ==
    /\ global_sequence_counter_ = 0
    /\ wall_us = 1
    /\ ctor_pc = [t \in Threads |-> "idle"]
    /\ ctor_msg = [t \in Threads |-> NullMsg]
    /\ constructed = <<>>

ChainIdle ==
    /\ interceptors_ = <<>>
    /\ ctx = NoCtx
    /\ chain_ret = "none"
    /\ chain_trace = <<>>

ThrIdle ==
    /\ max_messages_per_second_ = 0
    /\ message_count_ = 0
    /\ last_check_ = 0
    /\ now = 0

ThrWorkersIdle ==
    /\ thr_pc = [w \in Workers |-> "idle"]
    /\ thr_now = [w \in Workers |-> 0]
    /\ thr_elapsed = [w \in Workers |-> 0]
    /\ thr_last = NoCall
    /\ thr_log = <<>>

ValIdle ==
    /\ val_ctx = NoCtx
    /\ val_out = NoOut

CodIdle ==
    /\ cod_pc = "idle"
    /\ cod_msg = NullMsg
    /\ cod_data = <<>>
    /\ cod_out = NoOut
    /\ cod_cb = NoOut

\* static constexpr size_t MAX_SAMPLES
MAX_SAMPLES == 100000

\* no call on the monitor has returned yet
NoRet == [op |-> "none", num |-> 0, den |-> 1]

\* PerformanceMonitor::PerformanceMonitor
MonIdle ==
    /\ latency_samples_ = <<>>
    /\ stats_mutex_ = "free"
    /\ max_samples = MAX_SAMPLES
    /\ mon_pc = "idle"
    /\ mon_ret = NoRet
    /\ mon_recorded = <<>>
    /\ mon_feed = 0

\* worker_threads_ holds thread_count_ threads
SrvWorkers == 1..MaxThreadCount

\* the SocketServer singleton before initialize()
SrvIdle ==
    /\ srv_running_ = FALSE
    /\ server_fd_ = "unset"
    /\ epoll_fd_ = "unset"
    /\ epoll_reg = "none"
    /\ connection_count_ = 0
    /\ backlog = 0
    /\ srv_arrived = 0
    /\ accept_pc = "none"
    /\ worker_pc = [w \in SrvWorkers |-> "none"]
    /\ srv_ctl_pc = "idle"

(***************************************************************************)
(* std::queue operations used by the manager.                              *)
(***************************************************************************)
QueuePushBounded(q, item) == IF Len(q) >= 1 THEN q ELSE Append(q, item)
QueuePush(q, item) == Append(q, item)

QueueFrontLifo(q) == q[Len(q)]
QueueFront(q) == Head(q)

QueuePopLifo(q) == SubSeq(q, 1, Len(q) - 1)
QueuePop(q) == Tail(q)

(***************************************************************************)
(* Service objects: start(), stop(), the destructor.                       *)
(***************************************************************************)
Registered == {n \in Names : services_[n] # NoObj}
RegisteredObjs == {services_[n] : n \in Registered}

\* getActiveServiceCount(): the entries of services_ whose service isRunning()
ActiveCount == Cardinality({n \in Registered : obj_running[services_[n]]})

\* IService::start on every registered service that is not running
StartEach(run) == [o \in Objs |-> IF o \in RegisteredObjs THEN TRUE ELSE run[o]]
\* IService::stop on every registered service that is running
StopEach(run) == [o \in Objs |-> IF o \in RegisteredObjs THEN FALSE ELSE run[o]]

\* the last shared_ptr to object o goes away: ~Service() calls stop()
Released(run, o, stillHeld) ==
    IF o = NoObj \/ stillHeld THEN run ELSE [run EXCEPT ![o] = FALSE]

SMInit ==
    /\ services_ = [n \in Names |-> NoObj]
    /\ obj_running = [o \in Objs |-> FALSE]
    /\ next_obj = 0
    /\ running_ = FALSE
    /\ services_mutex_ = "free"
    /\ message_queue_ = <<>>
    /\ thread_joinable = FALSE
    /\ disp_pc = "none"
    /\ disp_item = <<>>
    /\ disp_service = NoObj
    /\ processed = 0
    /\ caller_pc = [c \in Callers |-> "idle"]
    /\ next_msg = 0
    /\ enqueued = <<>>
    /\ delivered = <<>>
    /\ owed = {}

\* bookkeeping of owed, from the step's old and new state
OwedUpdate ==
    LET new == IF Len(enqueued') > Len(enqueued)
               THEN {<<Last(enqueued')[1], Last(enqueued')[2]>>}
               ELSE {}
    IN  owed' = {x \in owed \cup new :
                    /\ running_'
                    /\ services_'[x[1]] # NoObj
                    /\ obj_running'[services_'[x[1]]]}

SMFrame ==
    /\ OwedUpdate
    /\ UNCHANGED <<msgVars, chainVars, thrVars, thrWorkerVars, valVars, codVars, monVars,
                srvVars>>

(***************************************************************************)
(* ServiceManager operations, called from the caller threads.              *)
(***************************************************************************)
\* registerService(make_shared<Service>()): a fresh, not yet started service object
RegisterService(c, n) ==
    /\ caller_pc[c] = "idle"
    /\ services_mutex_ = "free"
    /\ next_obj < MaxObjs
    /\ next_obj' = next_obj + 1
    /\ services_' = [services_ EXCEPT ![n] = next_obj + 1]
    /\ obj_running' = Released(obj_running, services_[n], disp_service = services_[n])
    /\ UNCHANGED <<running_, services_mutex_, message_queue_, thread_joinable, disp_pc,
                   disp_item, disp_service, processed, caller_pc, next_msg, enqueued,
                   delivered>>
    /\ SMFrame

\* if (it->second->isRunning()) it->second->stop()
StopIfRunningSkipped(run, o) == run
StopIfRunning(run, o) == [run EXCEPT ![o] = FALSE]

\* the body of unregisterService under services_mutex_: find, stop, erase
UnregisterResult(reg, run, n) ==
    IF reg[n] # NoObj
    THEN [services |-> [reg EXCEPT ![n] = NoObj], running |-> StopIfRunning(run, reg[n])]
    ELSE [services |-> reg, running |-> run]

\* unregisterService(service_name)
UnregisterService(c, n) ==
    /\ caller_pc[c] = "idle"
    /\ services_mutex_ = "free"
    /\ services_' = UnregisterResult(services_, obj_running, n).services
    /\ obj_running' = UnregisterResult(services_, obj_running, n).running
    /\ UNCHANGED <<next_obj, running_, services_mutex_, message_queue_, thread_joinable,
                   disp_pc, disp_item, disp_service, processed, caller_pc, next_msg,
                   enqueued, delivered>>
    /\ SMFrame

\* startAllServices, first part: take services_mutex_, start every service
StartAllBegin(c) ==
    /\ caller_pc[c] = "idle"
    /\ services_mutex_ = "free"
    /\ services_mutex_' = c
    /\ obj_running' = StartEach(obj_running)
    /\ caller_pc' = [caller_pc EXCEPT ![c] = "startAll"]
    /\ UNCHANGED <<services_, next_obj, running_, message_queue_, thread_joinable,
                   disp_pc, disp_item, disp_service, processed, next_msg, enqueued,
                   delivered>>
    /\ SMFrame

\* if (!message_processor_thread_.joinable())
SpawnsDispatcherAlways(joinable) == TRUE
SpawnsDispatcher(joinable) == ~joinable

\* ~lock_guard at the end of startAllServices: services_mutex_.unlock()
UnlockNever(holder) == holder
Unlock(holder) == "free"

\* startAllServices, second part: running_ = true, start the dispatcher thread
\* unless message_processor_thread_ is joinable, release services_mutex_
StartAllFinish(c) ==
    /\ caller_pc[c] = "startAll"
    /\ running_' = TRUE
    /\ IF SpawnsDispatcher(thread_joinable)
       THEN /\ thread_joinable' = TRUE
            /\ disp_pc' = "loop"
       ELSE UNCHANGED <<thread_joinable, disp_pc>>
    /\ services_mutex_' = Unlock(c)
    /\ caller_pc' = [caller_pc EXCEPT ![c] = "idle"]
    /\ UNCHANGED <<services_, obj_running, next_obj, message_queue_, disp_item,
                   disp_service, processed, next_msg, enqueued, delivered>>
    /\ SMFrame

\* stopAllServices, first part: running_ = false, before the lock is taken
StopAllFlag(c) ==
    /\ caller_pc[c] = "idle"
    /\ running_' = FALSE
    /\ caller_pc' = [caller_pc EXCEPT ![c] = "stopAll"]
    /\ UNCHANGED <<services_, obj_running, next_obj, services_mutex_, message_queue_,
                   thread_joinable, disp_pc, disp_item, disp_service, processed,
                   next_msg, enqueued, delivered>>
    /\ SMFrame

\* stopAllServices, second part: under services_mutex_, stop every running service
StopAllLocked(c) ==
    /\ caller_pc[c] = "stopAll"
    /\ services_mutex_ = "free"
    /\ obj_running' = StopEach(obj_running)
    /\ caller_pc' = [caller_pc EXCEPT ![c] = "idle"]
    /\ UNCHANGED <<services_, next_obj, running_, services_mutex_, message_queue_,
                   thread_joinable, disp_pc, disp_item, disp_service, processed,
                   next_msg, enqueued, delivered>>
    /\ SMFrame

\* sendMessage(service_name, message) with a message object (next_msg + 1) or nullptr
SendMessage(c, n, isNull) ==
    /\ caller_pc[c] = "idle"
    /\ IF isNull
       THEN UNCHANGED <<message_queue_, next_msg, enqueued>>
       ELSE /\ next_msg < MaxMsgs
            /\ next_msg' = next_msg + 1
            /\ enqueued' = Append(enqueued, <<n, next_msg + 1>>)
            /\ message_queue_' = QueuePush(message_queue_, <<n, next_msg + 1>>)
    /\ UNCHANGED <<services_, obj_running, next_obj, running_, services_mutex_,
                   thread_joinable, disp_pc, disp_item, disp_service, processed,
                   caller_pc, delivered>>
    /\ SMFrame

\* pair.second->isRunning() in broadcastMessage's loop
BroadcastIsRunningAlways(n) == TRUE
BroadcastIsRunning(n) == obj_running[services_[n]]

\* the calls broadcastMessage makes, in the map's iteration order; each is made
\* inside the scope of its lock_guard on services_mutex_ (held)
RECURSIVE BroadcastCalls(_, _)
BroadcastCalls(ns, m) ==
    IF ns = {} THEN <<>>
    ELSE LET n == CHOOSE x \in ns : TRUE
         IN  (IF BroadcastIsRunning(n)
              THEN <<[name |-> n, obj |-> services_[n], msg |-> m, via |-> "broadcast",
                      held |-> {"services_mutex_"}]>>
              ELSE <<>>) \o BroadcastCalls(ns \ {n}, m)

BroadcastMessage(c) ==
    /\ caller_pc[c] = "idle"
    /\ services_mutex_ = "free"
    /\ next_msg < MaxMsgs
    /\ next_msg' = next_msg + 1
    /\ delivered' = delivered \o BroadcastCalls(Registered, next_msg + 1)
    /\ UNCHANGED <<services_, obj_running, next_obj, running_, services_mutex_,
                   message_queue_, thread_joinable, disp_pc, disp_item, disp_service,
                   processed, caller_pc, enqueued>>
    /\ SMFrame

(***************************************************************************)
(* The dispatcher thread: messageProcessorLoop and processMessageQueue.    *)
(***************************************************************************)
\* while (running_)
DispWhile ==
    /\ disp_pc = "loop"
    /\ disp_pc' = IF running_ THEN "pmq" ELSE "exited"
    /\ UNCHANGED <<services_, obj_running, next_obj, running_, services_mutex_,
                   message_queue_, thread_joinable, disp_item, disp_service, processed,
                   caller_pc, next_msg, enqueued, delivered>>
    /\ SMFrame

\* processMessageQueue: lock; empty: wait_for and return (then the loop's sleep);
\* otherwise pop the first item of the batch and unlock
DispEnter ==
    /\ disp_pc = "pmq"
    /\ IF message_queue_ = <<>>
       THEN /\ disp_pc' = "loop"
            /\ UNCHANGED <<message_queue_, disp_item, processed>>
       ELSE /\ disp_item' = QueueFront(message_queue_)
            /\ message_queue_' = QueuePop(message_queue_)
            /\ processed' = 0
            /\ disp_pc' = "lookup"
    /\ UNCHANGED <<services_, obj_running, next_obj, running_, services_mutex_,
                   thread_joinable, disp_service, caller_pc, next_msg, enqueued,
                   delivered>>
    /\ SMFrame

\* auto service = getService(service_name)
DispGetService ==
    /\ disp_pc = "lookup"
    /\ services_mutex_ = "free"
    /\ disp_service' = services_[disp_item[1]]
    /\ disp_pc' = "check"
    /\ UNCHANGED <<services_, obj_running, next_obj, running_, services_mutex_,
                   message_queue_, thread_joinable, disp_item, processed, caller_pc,
                   next_msg, enqueued, delivered>>
    /\ SMFrame

\* if (service && service->isRunning()) service->processMessage(message), up to
\* and including the test of running_ at the entry of processMessage
ServiceIsRunningAlways(run, o) == TRUE
ServiceIsRunning(run, o) == run[o]

DispCheck ==
    /\ disp_pc = "check"
    /\ IF disp_service # NoObj /\ ServiceIsRunning(obj_running, disp_service)
       THEN /\ delivered' = Append(delivered,
                   [name |-> disp_item[1], obj |-> disp_service,
                    msg |-> disp_item[2], via |-> "send", held |-> {}])
            /\ disp_pc' = "process"
       ELSE /\ disp_pc' = "after"
            /\ UNCHANGED delivered
    /\ UNCHANGED <<services_, obj_running, next_obj, running_, services_mutex_,
                   message_queue_, thread_joinable, disp_item, disp_service, processed,
                   caller_pc, next_msg, enqueued>>
    /\ SMFrame

\* the body of Service::processMessage, run on the dispatcher thread
DispProcess ==
    /\ disp_pc = "process"
    /\ disp_pc' = "after"
    /\ UNCHANGED <<services_, obj_running, next_obj, running_, services_mutex_,
                   message_queue_, thread_joinable, disp_item, disp_service, processed,
                   caller_pc, next_msg, enqueued, delivered>>
    /\ SMFrame

\* processed++; lock.lock(); the while condition; the next pop, or return and sleep
DispAfter ==
    /\ disp_pc = "after"
    /\ obj_running' = Released(obj_running, disp_service, disp_service \in RegisteredObjs)
    /\ disp_service' = NoObj
    /\ IF message_queue_ # <<>> /\ processed + 1 < max_batch
       THEN /\ disp_item' = QueueFront(message_queue_)
            /\ message_queue_' = QueuePop(message_queue_)
            /\ processed' = processed + 1
            /\ disp_pc' = "lookup"
       ELSE /\ disp_item' = <<>>
            /\ processed' = 0
            /\ disp_pc' = "loop"
            /\ UNCHANGED message_queue_
    /\ UNCHANGED <<services_, next_obj, running_, services_mutex_, thread_joinable,
                   caller_pc, next_msg, enqueued, delivered>>
    /\ SMFrame

Dispatcher ==
    \/ DispWhile
    \/ DispEnter
    \/ DispGetService
    \/ DispCheck
    \/ DispProcess
    \/ DispAfter

CallerStep ==
    \E c \in Callers :
        \/ \E n \in Names : RegisterService(c, n)
        \/ \E n \in Names : UnregisterService(c, n)
        \/ StartAllBegin(c)
        \/ StartAllFinish(c)
        \/ StopAllFlag(c)
        \/ StopAllLocked(c)
        \/ \E n \in Names, isNull \in BOOLEAN : SendMessage(c, n, isNull)
        \/ BroadcastMessage(c)

SMNext == CallerStep \/ Dispatcher

Init == SMInit /\ CodIdle /\ MonIdle /\ SrvIdle /\ MsgIdle /\ ChainIdle /\ ThrIdle /\ ThrWorkersIdle /\ ValIdle

Next == SMNext

Spec == Init /\ [][Next]_vars

(***************************************************************************)
(* Scheduling: every thread that can take its next step eventually takes   *)
(* it (OS threads), and a thread waiting for services_mutex_ gets it when  *)
(* it is free again and again.                                             *)
(***************************************************************************)
Fairness ==
    /\ WF_vars(DispWhile)
    /\ WF_vars(DispEnter)
    /\ SF_vars(DispGetService)
    /\ WF_vars(DispCheck)
    /\ WF_vars(DispProcess)
    /\ WF_vars(DispAfter)
    /\ \A c \in Callers : WF_vars(StartAllFinish(c))
    /\ \A c \in Callers : SF_vars(StopAllLocked(c))

FairSpec == Spec /\ Fairness

(***************************************************************************)
(* Message construction on several threads (message.cpp:12-17): the        *)
(* timestamp is read first, then the sequence number is taken with one     *)
(* atomic fetch_add.                                                       *)
(***************************************************************************)
MsgFrame ==
    UNCHANGED <<smVars, owed, chainVars, thrVars, thrWorkerVars, valVars, codVars, monVars,
                srvVars>>

InConstruction == Cardinality({t \in Threads : ctor_pc[t] = "stamped"})

\* Message::Message up to the timestamp: sequence_number_(0), timestamp_ = now()
CtorStamp(t, type) ==
    /\ ctor_pc[t] = "idle"
    /\ Len(constructed) + InConstruction < MaxConstructed
    /\ ctor_msg' = [ctor_msg EXCEPT ![t] = HeartbeatMsg(type, 0, wall_us)]
    /\ ctor_pc' = [ctor_pc EXCEPT ![t] = "stamped"]
    /\ UNCHANGED <<global_sequence_counter_, wall_us, constructed>>
    /\ MsgFrame

\* sequence_number_ = global_sequence_counter_.fetch_add(1)
CtorFetch(t) ==
    /\ ctor_pc[t] = "stamped"
    /\ LET f == FetchAdd(global_sequence_counter_)
           m == [ctor_msg[t] EXCEPT !.seq = f.ret]
       IN  /\ global_sequence_counter_' = f.new
           /\ ctor_msg' = [ctor_msg EXCEPT ![t] = m]
           /\ constructed' = Append(constructed, [thread |-> t, msg |-> m])
    /\ ctor_pc' = [ctor_pc EXCEPT ![t] = "idle"]
    /\ UNCHANGED wall_us
    /\ MsgFrame

WallTick ==
    /\ wall_us < MaxWallUs
    /\ wall_us' = wall_us + 1
    /\ UNCHANGED <<global_sequence_counter_, ctor_pc, ctor_msg, constructed>>
    /\ MsgFrame

MsgInit == SMInit /\ CodIdle /\ MonIdle /\ SrvIdle /\ MsgIdle /\ ChainIdle /\ ThrIdle /\ ThrWorkersIdle /\ ValIdle

MsgNext ==
    \/ \E t \in Threads, type \in {ORDER_NEW, MARKET_DATA, HEARTBEAT, ERROR} :
          CtorStamp(t, type)
    \/ \E t \in Threads : CtorFetch(t)
    \/ WallTick

SpecMsg == MsgInit /\ [][MsgNext]_vars

(***************************************************************************)
(* One thread building contexts and running the chain on them              *)
(* (main.cpp:41-78).                                                       *)
(***************************************************************************)
ChainFrame ==
    UNCHANGED <<smVars, owed, wall_us, ctor_pc, ctor_msg, thrWorkerVars, valVars, codVars, monVars,
                srvVars>>

\* addInterceptor(make_shared<...>()); a ThrottlingInterceptor(rate) starts its
\* window at construction
AddInterceptor(kind, rate) ==
    /\ ctx = NoCtx
    /\ Len(interceptors_) < MaxChain
    /\ interceptors_' = Append(interceptors_, kind)
    /\ IF kind = "Throttling"
       THEN /\ \A i \in 1..Len(interceptors_) : interceptors_[i] # "Throttling"
            /\ max_messages_per_second_' = rate
            /\ message_count_' = 0
            /\ last_check_' = now
       ELSE UNCHANGED <<max_messages_per_second_, message_count_, last_check_>>
    /\ UNCHANGED <<ctx, chain_ret, chain_trace, now, global_sequence_counter_, constructed>>
    /\ ChainFrame

\* the chain and its interceptors are destroyed
ClearChain ==
    /\ ctx = NoCtx
    /\ interceptors_ # <<>>
    /\ interceptors_' = <<>>
    /\ max_messages_per_second_' = 0
    /\ message_count_' = 0
    /\ last_check_' = 0
    /\ UNCHANGED <<ctx, chain_ret, chain_trace, now, global_sequence_counter_,
                   constructed>>
    /\ ChainFrame

\* a message made by a constructor (it takes its sequence number from the
\* counter), wrapped in a new InterceptorContext
ConstructContext(m) ==
    /\ ctx = NoCtx
    /\ global_sequence_counter_ < MaxConstructed
    /\ LET f == FetchAdd(global_sequence_counter_)
           msg == [m EXCEPT !.seq = f.ret, !.ts = wall_us]
       IN  /\ global_sequence_counter_' = f.new
           /\ ctx' = NewContext(msg, TRUE)
    /\ UNCHANGED <<interceptors_, chain_ret, chain_trace, thrVars, constructed>>
    /\ ChainFrame

\* a context around a message that came off the wire, or around no message
ReceiveContext(m) ==
    /\ ctx = NoCtx
    /\ ctx' = NewContext(m, FALSE)
    /\ UNCHANGED <<interceptors_, chain_ret, chain_trace, thrVars,
                   global_sequence_counter_, constructed>>
    /\ ChainFrame

\* bool result = interceptor_chain->process(context)
ProcessChain(lat) ==
    /\ ctx # NoCtx
    /\ chain_ret = "none"
    /\ LET r == ChainProcess(interceptors_, ctx,
                             [count |-> message_count_, last |-> last_check_],
                             [now |-> now, lat |-> lat,
                              max |-> max_messages_per_second_])
       IN  /\ chain_ret' = IF r.ret THEN "true" ELSE "false"
           /\ ctx' = r.ctx
           /\ chain_trace' = r.trace
           /\ message_count_' = r.thr.count
           /\ last_check_' = r.thr.last
    /\ UNCHANGED <<interceptors_, max_messages_per_second_, now,
                   global_sequence_counter_, constructed>>
    /\ ChainFrame

\* the context goes out of scope
ReleaseContext ==
    /\ chain_ret # "none"
    /\ ctx' = NoCtx
    /\ chain_ret' = "none"
    /\ chain_trace' = <<>>
    /\ UNCHANGED <<interceptors_, thrVars, global_sequence_counter_, constructed>>
    /\ ChainFrame

ChainTick ==
    /\ ctx = NoCtx
    /\ now + WindowMs <= MaxWindows * WindowMs
    /\ now' = now + WindowMs
    /\ UNCHANGED <<interceptors_, ctx, chain_ret, chain_trace, max_messages_per_second_,
                   message_count_, last_check_, global_sequence_counter_, constructed>>
    /\ ChainFrame

\* the arguments main.cpp and the end-to-end scenarios give the constructors
CtorOrders ==
    {OrderMsg(ORDER_NEW, 0, 0, 12345, "AAPL", D(150), 100),
     OrderMsg(ORDER_NEW, 0, 0, 0, "AAPL", D(150), 100),
     OrderMsg(ORDER_NEW, 0, 0, 12345, "", D(150), 100),
     OrderMsg(ORDER_NEW, 0, 0, 12345, "AAPL", D(0), 100),
     OrderMsg(ORDER_NEW, 0, 0, 12345, "AAPL", D(150), 0)}
CtorMarketData ==
    {MarketDataMsg(MARKET_DATA, 0, 0, "AAPL", ba[1], ba[2]) :
        ba \in {<<D(150), D(151)>>, <<D(151), D(150)>>}}
CtorMessages == CtorOrders \cup CtorMarketData \cup {HeartbeatMsg(HEARTBEAT, 0, 0)}

\* a heartbeat frame with an all-zero header, and a well-formed one
WireSamples == {HeartbeatMsg(HEARTBEAT, 0, 0), HeartbeatMsg(HEARTBEAT, 7, 1)}

ChainInit == SMInit /\ CodIdle /\ MonIdle /\ SrvIdle /\ MsgIdle /\ ChainIdle /\ ThrIdle /\ ThrWorkersIdle /\ ValIdle

ChainNext ==
    \/ \E kind \in InterceptorKinds, rate \in 1..MaxRate : AddInterceptor(kind, rate)
    \/ ClearChain
    \/ \E m \in CtorMessages : ConstructContext(m)
    \/ \E m \in WireSamples \cup {NullMsg} : ReceiveContext(m)
    \/ \E lat \in Latencies : ProcessChain(lat)
    \/ ReleaseContext
    \/ ChainTick

SpecChain == ChainInit /\ [][ChainNext]_vars

(***************************************************************************)
(* Several workers calling ThrottlingInterceptor::intercept on one         *)
(* throttler (interceptor.cpp:165-189).                                    *)
(***************************************************************************)
ThrFrame == UNCHANGED <<smVars, owed, msgVars, chainVars, valVars, codVars, monVars,
                srvVars>>

TickMs == WindowMs \div 2

InCall == Cardinality({w \in Workers : thr_pc[w] = "entered"})

\* lines 171-172: now and elapsed, read before throttle_mutex_ is taken
ThrottleEnter(w) ==
    /\ thr_pc[w] = "idle"
    /\ Len(thr_log) + InCall < MaxCalls
    /\ thr_now' = [thr_now EXCEPT ![w] = now]
    /\ thr_elapsed' = [thr_elapsed EXCEPT ![w] = ThrottleElapsed(now, last_check_)]
    /\ thr_pc' = [thr_pc EXCEPT ![w] = "entered"]
    /\ UNCHANGED <<thrVars, thr_last, thr_log>>
    /\ ThrFrame

\* lines 174-188: the part of intercept under throttle_mutex_
ThrottleDecide(w) ==
    /\ thr_pc[w] = "entered"
    /\ LET r == ThrottleLocked(thr_elapsed[w], thr_now[w], message_count_, last_check_,
                               max_messages_per_second_)
       IN  /\ message_count_' = r.count
           /\ last_check_' = r.last
           /\ thr_last' = [valid |-> TRUE, t |-> thr_now[w], start |-> last_check_,
                           count |-> message_count_, ret |-> r.ret,
                           count_after |-> r.count, start_after |-> r.last,
                           key |-> r.key, value |-> r.value]
           /\ thr_log' = Append(thr_log, [t |-> thr_now[w], reset |-> r.reset,
                                          ret |-> r.ret])
    /\ thr_pc' = [thr_pc EXCEPT ![w] = "idle"]
    /\ thr_now' = [thr_now EXCEPT ![w] = 0]
    /\ thr_elapsed' = [thr_elapsed EXCEPT ![w] = 0]
    /\ UNCHANGED <<max_messages_per_second_, now>>
    /\ ThrFrame

ThrTick ==
    /\ now + TickMs <= MaxWindows * WindowMs
    /\ now' = now + TickMs
    /\ UNCHANGED <<max_messages_per_second_, message_count_, last_check_, thrWorkerVars>>
    /\ ThrFrame

\* ThrottlingInterceptor(max_messages_per_second): count 0, window start now
ThrInit ==
    /\ SMInit /\ CodIdle /\ MonIdle /\ SrvIdle /\ MsgIdle /\ ChainIdle /\ ThrWorkersIdle /\ ValIdle
    /\ max_messages_per_second_ \in 0..MaxRate
    /\ message_count_ = 0
    /\ last_check_ = 0
    /\ now = 0

ThrNext ==
    \/ \E w \in Workers : ThrottleEnter(w)
    \/ \E w \in Workers : ThrottleDecide(w)
    \/ ThrTick

SpecThrottle == ThrInit /\ [][ThrNext]_vars

(***************************************************************************)
(* The Validator applied to any message a decoder or a constructor can     *)
(* hand it.                                                                *)
(***************************************************************************)
ValFrame ==
    UNCHANGED <<smVars, owed, msgVars, chainVars, thrVars, thrWorkerVars, codVars,
                monVars, srvVars>>

Doubles == {D(0 - 1), D(0), D(1), D(2), NaN}

AnyOrders ==
    {OrderMsg(type, seq, ts, oid, sym, price, qty) :
        type \in {ORDER_NEW, ORDER_CANCEL, ORDER_REPLACE, ORDER_FILL, MARKET_DATA},
        seq \in {0, 1}, ts \in {0, 1}, oid \in {0, 1}, sym \in {"", "AAPL"},
        price \in Doubles \ {D(2)}, qty \in {0, 1}}
AnyMarketData ==
    {MarketDataMsg(type, seq, ts, sym, bid, ask) :
        type \in {MARKET_DATA, ORDER_NEW}, seq \in {0, 1}, ts \in {0, 1},
        sym \in {"", "AAPL"}, bid \in Doubles, ask \in Doubles}
AnyHeartbeats ==
    {HeartbeatMsg(type, seq, ts) :
        type \in {HEARTBEAT, ORDER_NEW, MARKET_DATA}, seq \in {0, 1}, ts \in {0, 1}}
AnyErrors == {ErrorMsg(ERROR, seq, ts) : seq \in {0, 1}, ts \in {0, 1}}
AnyMessages == AnyOrders \cup AnyMarketData \cup AnyHeartbeats \cup AnyErrors \cup {NullMsg}

ValInit ==
    /\ SMInit /\ CodIdle /\ MonIdle /\ SrvIdle /\ MsgIdle /\ ChainIdle /\ ThrIdle /\ ThrWorkersIdle
    /\ val_ctx \in {NewContext(m, FALSE) : m \in AnyMessages}
    /\ val_out = NoOut

\* ValidationInterceptor::intercept(context)
Validate ==
    /\ ~val_out.done
    /\ val_out' = [done |-> TRUE, ret |-> ValidationIntercept(val_ctx).ret,
                   ctx |-> ValidationIntercept(val_ctx).ctx]
    /\ UNCHANGED val_ctx
    /\ ValFrame

ValNext == Validate

SpecValidate == ValInit /\ [][ValNext]_vars

(***************************************************************************)
(* The wire codec (message.cpp:29-410).  A uint64_t or uint32_t field of a *)
(* message object is a tuple of 16-bit limbs, least significant first; a   *)
(* double field is the limbs of its IEEE-754 bit pattern; a string is the  *)
(* sequence of its bytes.                                                  *)
(***************************************************************************)
U64(n) == <<n % 65536, n \div 65536, 0, 0>>
U32(n) == <<n % 65536, n \div 65536>>

\* data.push_back((x >> (i * 8)) & 0xFF), i = 0 .. width-1
RECURSIVE ToBytes(_)
ToBytes(limbs) ==
    IF limbs = <<>> THEN <<>>
    ELSE <<Head(limbs) % 256, Head(limbs) \div 256>> \o ToBytes(Tail(limbs))

\* x |= static_cast<uint64_t>(data[pos++]) << (i * 8), i = 0 .. width-1
FromBytes(bs) == [k \in 1..(Len(bs) \div 2) |-> bs[2 * k - 1] + 256 * bs[2 * k]]

\* data[pos] for a zero-based pos; past the end the read is undefined and
\* yields the byte g
ReadAt(b, pos, g) == IF pos < Len(b) THEN b[pos + 1] ELSE g
ReadN(b, pos, n, g) == [i \in 1..n |-> ReadAt(b, pos + i - 1, g)]

OrderObj(type, priority, seq, ts, client_id, order_id, symbol, price, quantity, is_buy) ==
    [kind |-> "Order", type |-> type, priority |-> priority, seq |-> seq, ts |-> ts,
     client_id |-> client_id, order_id |-> order_id, symbol |-> symbol,
     price |-> price, quantity |-> quantity, is_buy |-> is_buy]

MarketDataObj(type, priority, seq, ts, client_id, symbol, bid, ask, bid_size, ask_size) ==
    [kind |-> "MarketData", type |-> type, priority |-> priority, seq |-> seq,
     ts |-> ts, client_id |-> client_id, symbol |-> symbol, bid |-> bid, ask |-> ask,
     bid_size |-> bid_size, ask_size |-> ask_size]

HeartbeatObj(type, priority, seq, ts, client_id) ==
    [kind |-> "Heartbeat", type |-> type, priority |-> priority, seq |-> seq,
     ts |-> ts, client_id |-> client_id]

ErrorObj(type, priority, seq, ts, client_id, error_code, error_message) ==
    [kind |-> "Error", type |-> type, priority |-> priority, seq |-> seq, ts |-> ts,
     client_id |-> client_id, error_code |-> error_code,
     error_message |-> error_message]

\* the header every serialize writes first: type, priority, sequence number,
\* timestamp, client id
SerializeHeader(m) ==
    <<m.type, m.priority>> \o ToBytes(m.seq) \o ToBytes(m.ts) \o ToBytes(m.client_id)

\* static_cast<uint8_t>(s.length())
LengthByte(str) == Len(str) % 256

SerializeOrder(m) ==
    SerializeHeader(m) \o ToBytes(m.order_id) \o <<LengthByte(m.symbol)>> \o m.symbol
        \o ToBytes(m.price) \o ToBytes(m.quantity) \o <<IF m.is_buy THEN 1 ELSE 0>>

SerializeMarketData(m) ==
    SerializeHeader(m) \o <<LengthByte(m.symbol)>> \o m.symbol
        \o ToBytes(m.bid) \o ToBytes(m.ask) \o ToBytes(m.bid_size) \o ToBytes(m.ask_size)

SerializeHeartbeat(m) == SerializeHeader(m)

SerializeError(m) ==
    SerializeHeader(m) \o ToBytes(m.error_code) \o <<LengthByte(m.error_message)>>
        \o m.error_message

\* the virtual call m->serialize()
Serialize(m) ==
    CASE m.kind = "Order" -> SerializeOrder(m)
      [] m.kind = "MarketData" -> SerializeMarketData(m)
      [] m.kind = "Heartbeat" -> SerializeHeartbeat(m)
      [] m.kind = "Error" -> SerializeError(m)

OrderMinSize == 50
MarketDataMinSize == 50
HeartbeatMinSize == 26
ErrorMinSize == 30

\* the header reads of every deserialize (the size check has passed)
DeserializeHeader(obj, b) ==
    [obj EXCEPT !.type = b[1], !.priority = b[2],
                !.seq = FromBytes(SubSeq(b, 3, 10)),
                !.ts = FromBytes(SubSeq(b, 11, 18)),
                !.client_id = FromBytes(SubSeq(b, 19, 26))]

\* OrderMessage::deserialize: [ok, msg, oob]; oob tells that a byte at an
\* index >= data.size() was read
DeserializeOrder(obj, b, g) ==
    IF Len(b) < OrderMinSize THEN [ok |-> FALSE, msg |-> obj, oob |-> FALSE]
    ELSE LET h == [DeserializeHeader(obj, b) EXCEPT
                       !.order_id = FromBytes(SubSeq(b, 27, 34))]
             symbol_len == b[35]
             pos == 35
         IN  IF pos + symbol_len > Len(b)
             THEN [ok |-> FALSE, msg |-> h, oob |-> FALSE]
             ELSE LET p == pos + symbol_len
                  IN  [ok |-> TRUE,
                       msg |-> [h EXCEPT
                           !.symbol = SubSeq(b, pos + 1, pos + symbol_len),
                           !.price = FromBytes(ReadN(b, p, 8, g)),
                           !.quantity = FromBytes(ReadN(b, p + 8, 4, g)),
                           !.is_buy = IF p + 12 < Len(b) THEN b[p + 13] # 0
                                      ELSE h.is_buy],
                       oob |-> p + 12 > Len(b)]

DeserializeMarketData(obj, b, g) ==
    IF Len(b) < MarketDataMinSize THEN [ok |-> FALSE, msg |-> obj, oob |-> FALSE]
    ELSE LET h == DeserializeHeader(obj, b)
             symbol_len == b[27]
             pos == 27
         IN  IF pos + symbol_len > Len(b)
             THEN [ok |-> FALSE, msg |-> h, oob |-> FALSE]
             ELSE LET p == pos + symbol_len
                  IN  [ok |-> TRUE,
                       msg |-> [h EXCEPT
                           !.symbol = SubSeq(b, pos + 1, pos + symbol_len),
                           !.bid = FromBytes(ReadN(b, p, 8, g)),
                           !.ask = FromBytes(ReadN(b, p + 8, 8, g)),
                           !.bid_size = FromBytes(ReadN(b, p + 16, 4, g)),
                           !.ask_size = FromBytes(ReadN(b, p + 20, 4, g))],
                       oob |-> p + 24 > Len(b)]

DeserializeHeartbeat(obj, b, g) ==
    IF Len(b) < HeartbeatMinSize THEN [ok |-> FALSE, msg |-> obj, oob |-> FALSE]
    ELSE [ok |-> TRUE, msg |-> DeserializeHeader(obj, b), oob |-> FALSE]

DeserializeError(obj, b, g) ==
    IF Len(b) < ErrorMinSize THEN [ok |-> FALSE, msg |-> obj, oob |-> FALSE]
    ELSE LET h == [DeserializeHeader(obj, b) EXCEPT
                       !.error_code = FromBytes(SubSeq(b, 27, 30))]
             pos == 30
         IN  [ok |-> TRUE,
              msg |-> IF pos < Len(b) /\ pos + 1 + b[pos + 1] <= Len(b)
                      THEN [h EXCEPT !.error_message =
                                SubSeq(b, pos + 2, pos + 1 + b[pos + 1])]
                      ELSE h,
              oob |-> FALSE]

\* the virtual call obj->deserialize(data)
Deserialize(obj, b, g) ==
    CASE obj.kind = "Order" -> DeserializeOrder(obj, b, g)
      [] obj.kind = "MarketData" -> DeserializeMarketData(obj, b, g)
      [] obj.kind = "Heartbeat" -> DeserializeHeartbeat(obj, b, g)
      [] obj.kind = "Error" -> DeserializeError(obj, b, g)

\* MessageFactory::createMessage(MessageType): a default-constructed object,
\* which takes sequence number seq and timestamp ts in Message::Message
CreateMessageOfType(type, seq, ts) ==
    IF type \in {ORDER_NEW, ORDER_CANCEL, ORDER_REPLACE, ORDER_FILL}
    THEN OrderObj(ORDER_NEW, NORMAL, seq, ts, U64(0), U64(0), <<>>, U64(0), U32(0), TRUE)
    ELSE IF type = MARKET_DATA
    THEN MarketDataObj(MARKET_DATA, NORMAL, seq, ts, U64(0), <<>>, U64(0), U64(0),
                       U32(0), U32(0))
    ELSE IF type = HEARTBEAT
    THEN HeartbeatObj(HEARTBEAT, NORMAL, seq, ts, U64(0))
    ELSE IF type = ERROR
    THEN ErrorObj(ERROR, NORMAL, seq, ts, U64(0), U32(0), <<>>)
    ELSE NullMsg

\* MessageFactory::createMessage(data)
CreateMessage(data, seq, ts) ==
    IF data = <<>> THEN NullMsg ELSE CreateMessageOfType(data[1], seq, ts)

(***************************************************************************)
(* The codec applied to one message (serialize, then decode) or to one     *)
(* received byte string (decode, or MessageHandler::handleMessage).        *)
(***************************************************************************)
CodFrame ==
    UNCHANGED <<smVars, owed, wall_us, ctor_pc, ctor_msg, constructed, chainVars,
                thrVars, thrWorkerVars, valVars, monVars, srvVars>>

\* a string of n bytes
Str(n) == [i \in 1..n |-> 65]
StrLens == (0..MaxStr) \cup {255}

\* the bit patterns of 150.5, 150.45 and 150.55
Bits150_5 == <<0, 0, 53248, 16482>>
Bits150_45 == <<26214, 26214, 52838, 16482>>
Bits150_55 == <<39322, 39321, 53657, 16482>>

CodecOrders ==
    {OrderObj(ORDER_NEW, NORMAL, U64(seq), U64(1), U64(7), U64(12345), Str(n),
              Bits150_5, U32(100), buy) :
        seq \in {1, 70000}, n \in StrLens, buy \in BOOLEAN}
CodecMarketData ==
    {MarketDataObj(MARKET_DATA, NORMAL, U64(2), U64(1), U64(7), Str(n), Bits150_45,
                   Bits150_55, U32(1000), U32(1000)) : n \in StrLens}
CodecHeartbeats == {HeartbeatObj(HEARTBEAT, NORMAL, U64(3), U64(1), U64(c)) : c \in {0, 7}}
CodecErrors ==
    {ErrorObj(ERROR, NORMAL, U64(4), U64(1), U64(7), U32(404), Str(n)) : n \in StrLens}
CodecMessages == CodecOrders \cup CodecMarketData \cup CodecHeartbeats \cup CodecErrors

\* byte strings a peer can send: frames cut short, frames whose string length
\* byte, last byte or leading byte was changed
CutLens == {0, 1, 25, 26, 29, 30, 31, 34, 35, 49, 50, 51}
Truncations(b) ==
    {SubSeq(b, 1, k) : k \in (CutLens \cup {Len(b) - 1}) \cap (0..Len(b))}
WithByte(b, i, v) == IF i \in 1..Len(b) THEN [b EXCEPT ![i] = v] ELSE b
LengthByteAt(m) ==
    CASE m.kind = "Order" -> 35
      [] m.kind = "MarketData" -> 27
      [] m.kind = "Heartbeat" -> 26
      [] m.kind = "Error" -> 31
FramesOf(m) ==
    LET b == Serialize(m)
    IN  {b} \cup Truncations(b)
            \cup {WithByte(b, LengthByteAt(m), v) : v \in {0, 1, 15, 200}}
            \cup {WithByte(b, Len(b), 2)}
            \cup {WithByte(b, 1, t) : t \in 0..10}
RawFrames == UNION {FramesOf(m) : m \in CodecMessages}

CodInit ==
    /\ SMInit /\ MonIdle /\ SrvIdle /\ MsgIdle /\ ChainIdle /\ ThrIdle /\ ThrWorkersIdle /\ ValIdle
    /\ \/ /\ cod_pc = "built"
          /\ cod_msg \in CodecMessages
          /\ cod_data = <<>>
       \/ /\ cod_pc = "raw"
          /\ cod_msg = NullMsg
          /\ cod_data \in RawFrames
    /\ cod_out = NoOut
    /\ cod_cb = NoOut

\* auto data = message->serialize()
SerializeMessage ==
    /\ cod_pc = "built"
    /\ cod_data' = Serialize(cod_msg)
    /\ cod_pc' = "encoded"
    /\ UNCHANGED <<cod_msg, cod_out, cod_cb, global_sequence_counter_>>
    /\ CodFrame

\* auto m = MessageFactory::createMessage(data); if (m) m->deserialize(data).
\* A read past the end of data yields the byte g, or the process crashes.
DecodeBytes(g, crash) ==
    /\ cod_pc \in {"encoded", "raw"}
    /\ LET f == FetchAdd(global_sequence_counter_)
           obj == CreateMessage(cod_data, U64(f.ret), U64(wall_us))
           r == Deserialize(obj, cod_data, g)
       IN  /\ global_sequence_counter_' =
                 IF obj = NullMsg THEN global_sequence_counter_ ELSE f.new
           /\ cod_out' =
                 IF obj = NullMsg
                 THEN [done |-> TRUE, created |-> "null", ok |-> FALSE, msg |-> NullMsg,
                       oob |-> FALSE, crashed |-> FALSE]
                 ELSE IF r.oob /\ crash
                 THEN [done |-> TRUE, created |-> obj.kind, ok |-> FALSE,
                       msg |-> NullMsg, oob |-> TRUE, crashed |-> TRUE]
                 ELSE [done |-> TRUE, created |-> obj.kind, ok |-> r.ok, msg |-> r.msg,
                       oob |-> r.oob, crashed |-> FALSE]
    /\ cod_pc' = "decoded"
    /\ UNCHANGED <<cod_msg, cod_data, cod_cb>>
    /\ CodFrame

\* MessageHandler::handleMessage(client_fd, data, length) with a callback set
HandleMessage ==
    /\ cod_pc \in {"encoded", "raw"}
    /\ LET f == FetchAdd(global_sequence_counter_)
           message == CreateMessage(cod_data, U64(f.ret), U64(wall_us))
       IN  IF cod_data = <<>> \/ message = NullMsg
           THEN /\ cod_cb' = [done |-> TRUE, called |-> FALSE, msg |-> NullMsg]
                /\ UNCHANGED global_sequence_counter_
           ELSE /\ cod_cb' = [done |-> TRUE, called |-> TRUE, msg |-> message]
                /\ global_sequence_counter_' = f.new
    /\ cod_pc' = "handled"
    /\ UNCHANGED <<cod_msg, cod_data, cod_out>>
    /\ CodFrame

CodNext ==
    \/ SerializeMessage
    \/ \E g \in {0, 255}, crash \in BOOLEAN : DecodeBytes(g, crash)
    \/ HandleMessage

SpecCodec == CodInit /\ [][CodNext]_vars

(***************************************************************************)
(* Dispatcher claims.                                                      *)
(***************************************************************************)
RECURSIVE SendsDeliveredTo(_, _)
SendsDeliveredTo(d, n) ==
    IF d = <<>> THEN <<>>
    ELSE IF Head(d).name = n /\ Head(d).via = "send"
         THEN <<Head(d).msg>> \o SendsDeliveredTo(Tail(d), n)
         ELSE SendsDeliveredTo(Tail(d), n)

RECURSIVE IsSubsequence(_, _)
IsSubsequence(a, b) ==
    IF a = <<>> THEN TRUE
    ELSE IF b = <<>> THEN FALSE
    ELSE IF Head(a) = Head(b) THEN IsSubsequence(Tail(a), Tail(b))
    ELSE IsSubsequence(a, Tail(b))

\* C1: for every service name S, the messages the dispatcher passes to S.process
\* are passed in the order in which send enqueued them for S: the calls made for S
\* form an order-preserving subsequence of the sends naming S.
C1_FifoPerService ==
    \A n \in Names : IsSubsequence(SendsDeliveredTo(delivered, n), SelectFor(enqueued, n))

\* C1 witness: two sends naming the same service have both been passed to it.
C1_Witness ==
    \E n \in Names : Len(SendsDeliveredTo(delivered, n)) >= 2

Queued(n, m) == \E i \in 1..Len(message_queue_) : message_queue_[i] = <<n, m>>
DeliveredTo(n, m) == \E i \in 1..Len(delivered) :
    delivered[i].name = n /\ delivered[i].msg = m /\ delivered[i].via = "send"

\* C2: a message enqueued by send(S, m) is eventually passed to S.process unless
\* the registry stops running or S stops being registered and running.
C2_EventuallyDelivered ==
    \A n \in Names : \A m \in 1..MaxMsgs :
        (<<n, m>> \in owed) ~> (DeliveredTo(n, m) \/ <<n, m>> \notin owed)

Stops(trace) == {k \in 1..Len(trace) : ~trace[k].ret}

\* C4: process invokes the interceptors in insertion order, each at most once
\* (the k-th call is on the k-th interceptor); every call before the last
\* returned continue, so nothing placed after the first stop is invoked; the
\* result is false exactly when some interceptor returned stop, and true means
\* the whole chain (possibly empty) was invoked.
C4_ShortCircuit ==
    chain_ret # "none" =>
        /\ Len(chain_trace) <= Len(interceptors_)
        /\ \A k \in 1..Len(chain_trace) :
              /\ chain_trace[k].idx = k
              /\ chain_trace[k].kind = interceptors_[k]
              /\ k < Len(chain_trace) => chain_trace[k].ret
        /\ (chain_ret = "false") <=> (Stops(chain_trace) # {})
        /\ (chain_ret = "true") => Len(chain_trace) = Len(interceptors_)

\* C4 witness: a chain [A, Stop, C]: the second interceptor stopped, the third
\* was not invoked and process returned false.
C4_Witness ==
    /\ chain_ret = "false"
    /\ Len(chain_trace) = 2
    /\ Len(interceptors_) = 3
    /\ chain_trace[1].ret /\ ~chain_trace[2].ret

ValidOrder(m) ==
    /\ m.kind = "Order"
    /\ m.order_id # 0
    /\ m.symbol # ""
    /\ DGt(m.price, D(0))
    /\ m.quantity > 0

\* C9: for every freshly constructed Order with order_id # 0, non-empty symbol,
\* price > 0 and quantity > 0, the chain [Validator, Logger, Performance]
\* returns true and leaves validation = "passed", a log entry and latency_us.
C9_FreshValidOrderPasses ==
    (/\ chain_ret # "none"
     /\ interceptors_ = <<"Validation", "Logging", "Performance">>
     /\ ctx.fresh
     /\ ValidOrder(ctx.message))
    => /\ chain_ret = "true"
       /\ GetMetadata(ctx, "validation") = "passed"
       /\ HasMetadata(ctx, "log")
       /\ HasMetadata(ctx, "latency_us")

(***************************************************************************)
(* Throttler claims.                                                       *)
(***************************************************************************)
Continues(log, from, to) == {k \in from..to : log[k].ret}

\* C5 (as claimed): in any 1-second interval, aligned with the throttler's window
\* or not, at most max_per_second calls return continue.
C5_AnySecond ==
    \A i \in 1..Len(thr_log) :
        thr_log[i].ret =>
            Cardinality({j \in 1..Len(thr_log) :
                            /\ thr_log[j].ret
                            /\ thr_log[i].t <= thr_log[j].t
                            /\ thr_log[j].t < thr_log[i].t + WindowMs})
                <= max_messages_per_second_

\* C5 (amended): between two consecutive window resets at most max_per_second
\* calls return continue; a 1-second interval that straddles a reset can hold
\* more.
C5_PerWindow ==
    \A i \in 1..Len(thr_log) : \A j \in i..Len(thr_log) :
        (\A k \in (i + 1)..j : ~thr_log[k].reset)
            => Cardinality(Continues(thr_log, i, j)) <= max_messages_per_second_

\* C5 witness: with max_per_second = 1, a call continued, and the call that
\* reset the window less than a second later continued too.
C5_Witness ==
    /\ max_messages_per_second_ = 1
    /\ \E i \in 1..Len(thr_log) : \E j \in (i + 1)..Len(thr_log) :
          /\ thr_log[i].ret
          /\ thr_log[j].ret /\ thr_log[j].reset
          /\ thr_log[j].t - thr_log[i].t < WindowMs
          /\ thr_log[j].t >= thr_log[i].t

\* C6: a call made less than 1000 ms after the window start continues with
\* throttle_status = "accepted" and increments the count while the count is
\* below max_per_second, and otherwise stops with throttled = "Rate limit
\* exceeded" and leaves the count unchanged; a call made 1000 ms or more after
\* the window start resets the window to (now, 0) before it is counted.
C6_WindowContract ==
    thr_last.valid =>
        LET within == thr_last.t - thr_last.start < WindowMs
            max == max_messages_per_second_
            counted == IF within THEN thr_last.count ELSE 0
        IN  /\ thr_last.start_after = (IF within THEN thr_last.start ELSE thr_last.t)
            /\ counted < max =>
                  /\ thr_last.ret
                  /\ thr_last.count_after = counted + 1
                  /\ thr_last.key = "throttle_status" /\ thr_last.value = "accepted"
            /\ counted >= max =>
                  /\ ~thr_last.ret
                  /\ thr_last.count_after = counted
                  /\ thr_last.key = "throttled"
                  /\ thr_last.value = "Rate limit exceeded"

(***************************************************************************)
(* Sequence number claims.                                                 *)
(***************************************************************************)
\* C7: under any interleaving of constructions on several threads the sequence
\* numbers are pairwise distinct, and a construction that took its number
\* later from the counter has a strictly greater number.
C7_DistinctIncreasing ==
    \A i \in 1..Len(constructed) : \A j \in (i + 1)..Len(constructed) :
        constructed[i].msg.seq < constructed[j].msg.seq

\* C7 witness: two threads interleaved: the one that read its timestamp later
\* took its sequence number first.
C7_Witness ==
    \E i \in 1..Len(constructed) : \E j \in (i + 1)..Len(constructed) :
        /\ constructed[i].thread # constructed[j].thread
        /\ constructed[i].msg.ts > constructed[j].msg.ts

\* C8: every message produced by a constructor has sequence_number # 0, the
\* first construction of the process included.
C8_SeqNeverZero ==
    \A i \in 1..Len(constructed) : constructed[i].msg.seq # 0

(***************************************************************************)
(* Validator claims.                                                       *)
(***************************************************************************)
IsOrderKind(m) ==
    m.kind = "Order" /\ m.type \in {ORDER_NEW, ORDER_CANCEL, ORDER_REPLACE}
IsMarketDataKind(m) == m.kind = "MarketData" /\ m.type = MARKET_DATA

StopAsClaimed(m) ==
    \/ m.kind = "null"
    \/ /\ m.kind # "null"
       /\ \/ m.seq = 0
          \/ m.ts = 0
          \/ /\ IsOrderKind(m)
             /\ \/ m.order_id = 0
                \/ m.symbol = ""
                \/ DLe(m.price, D(0))
                \/ m.quantity = 0
          \/ /\ IsMarketDataKind(m)
             /\ \/ DLt(m.bid, D(0))
                \/ DLt(m.ask, D(0))
                \/ DGe(m.bid, m.ask)

\* C10 (as claimed): the Validator stops if and only if the message is absent,
\* or sequence_number = 0, or timestamp = 0, or it is an OrderNew/Cancel/Replace
\* with order_id = 0, empty symbol, price <= 0 or quantity = 0, or it is a
\* MarketData with bid < 0, ask < 0 or bid >= ask.
C10_StopIffClaimed ==
    val_out.done => (~val_out.ret <=> StopAsClaimed(val_ctx.message))

\* C10 (amended): as claimed, with one more cause of stop: a MarketData whose
\* symbol is empty.
C10_StopIff ==
    val_out.done =>
        (~val_out.ret <=>
            \/ StopAsClaimed(val_ctx.message)
            \/ /\ IsMarketDataKind(val_ctx.message)
               /\ val_ctx.message.symbol = "")

\* C10 witness: a MarketData with sequence number, timestamp and 0 <= bid < ask
\* in order but an empty symbol was stopped.
C10_Witness ==
    /\ val_out.done
    /\ ~val_out.ret
    /\ IsMarketDataKind(val_ctx.message)
    /\ val_ctx.message.symbol = ""
    /\ ~StopAsClaimed(val_ctx.message)
    /\ GetMetadata(val_out.ctx, "error") = "Empty symbol"

(***************************************************************************)
(* Validator and Logger metadata claims.                                   *)
(***************************************************************************)
HeaderOk(m) == m.kind # "null" /\ m.seq # 0 /\ m.ts # 0

\* the texts of the kind-specific checks that message m fails
FailingKindTexts(m) ==
    (IF IsOrderKind(m)
     THEN {t \in {"Invalid order ID", "Empty symbol", "Invalid price", "Invalid quantity"} :
             \/ t = "Invalid order ID" /\ m.order_id = 0
             \/ t = "Empty symbol" /\ m.symbol = ""
             \/ t = "Invalid price" /\ DLe(m.price, D(0))
             \/ t = "Invalid quantity" /\ m.quantity = 0}
     ELSE {})
    \cup
    (IF IsMarketDataKind(m)
     THEN {t \in {"Empty symbol", "Invalid bid/ask", "Bid >= Ask"} :
             \/ t = "Empty symbol" /\ m.symbol = ""
             \/ t = "Invalid bid/ask" /\ (DLt(m.bid, D(0)) \/ DLt(m.ask, D(0)))
             \/ t = "Bid >= Ask" /\ DGe(m.bid, m.ask)}
     ELSE {})

\* C11: when the Validator rejects, metadata error holds the text of the first
\* failing check in the order absent message, sequence number, timestamp,
\* kind-specific checks ("Invalid sequence number" for an all-zero header,
\* "Bid >= Ask" for a non-negative bid >= ask that fails nothing earlier) and
\* validation is not set; when it accepts, validation = "passed" and error is
\* not set.
C11_ErrorMetadata ==
    val_out.done =>
        LET m == val_ctx.message
            err == GetMetadata(val_out.ctx, "error")
        IN  IF val_out.ret
            THEN /\ GetMetadata(val_out.ctx, "validation") = "passed"
                 /\ ~HasMetadata(val_out.ctx, "error")
            ELSE /\ ~HasMetadata(val_out.ctx, "validation")
                 /\ HasMetadata(val_out.ctx, "error")
                 /\ m.kind = "null" => err = "Null message"
                 /\ (m.kind # "null" /\ m.seq = 0) => err = "Invalid sequence number"
                 /\ (m.kind # "null" /\ m.seq # 0 /\ m.ts = 0) => err = "Invalid timestamp"
                 /\ HeaderOk(m) => err \in FailingKindTexts(m)
                 /\ (/\ HeaderOk(m) /\ IsMarketDataKind(m) /\ m.symbol # ""
                     /\ DGe(m.bid, D(0)) /\ DGe(m.ask, D(0)) /\ DGe(m.bid, m.ask))
                    => err = "Bid >= Ask"

\* C11 witness: a message with an all-zero header (sequence number and
\* timestamp both 0) was rejected with "Invalid sequence number".
C11_Witness ==
    /\ val_out.done
    /\ ~val_out.ret
    /\ val_ctx.message.kind # "null"
    /\ val_ctx.message.seq = 0 /\ val_ctx.message.ts = 0
    /\ GetMetadata(val_out.ctx, "error") = "Invalid sequence number"

\* C12: the Logger returns continue for every context, including a context
\* whose message is absent.
C12_LoggerNeverStops ==
    chain_ret # "none" =>
        \A k \in 1..Len(chain_trace) :
            chain_trace[k].kind = "Logging" => chain_trace[k].ret

(***************************************************************************)
(* Registry lifecycle claims.                                              *)
(***************************************************************************)
StartAllReturns(c) == caller_pc[c] = "startAll" /\ caller_pc'[c] = "idle"
StopAllReturns(c) == caller_pc[c] = "stopAll" /\ caller_pc'[c] = "idle"
DispatcherAlive == disp_pc \notin {"none", "exited"}

\* C19: when start_all returns every registered service is running, and a
\* start_all starts a dispatcher only when none is alive, so that at most one
\* dispatcher task is alive however many times start_all is called.
C19_StartAll ==
    [][\A c \in Callers :
          StartAllReturns(c) =>
              /\ \A n \in Names :
                    services_'[n] # NoObj => obj_running'[services_'[n]]
              /\ disp_pc' # disp_pc => ~DispatcherAlive]_vars

\* C19 witness: start_all has been called again while the dispatcher started
\* by an earlier start_all is alive and a service is registered.
C19_Witness ==
    /\ \E c \in Callers : caller_pc[c] = "startAll"
    /\ thread_joinable
    /\ DispatcherAlive
    /\ Registered # {}

NoStartAllYet == ~thread_joinable /\ \A c \in Callers : caller_pc[c] # "startAll"

\* C20: active_count() is 0 before start_all, equals the number of registered
\* services when start_all returns, and is 0 again when stop_all returns, at
\* which point the registry's running flag is false.
C20_ActiveCount ==
    [][/\ NoStartAllYet => ActiveCount = 0
       /\ \A c \in Callers :
             /\ StartAllReturns(c) => ActiveCount' = Cardinality(Registered')
             /\ StopAllReturns(c) => (ActiveCount' = 0 /\ ~running_')]_vars

(***************************************************************************)
(* Codec claims.                                                           *)
(***************************************************************************)
IsPrefix(a, b) == Len(a) <= Len(b) /\ SubSeq(b, 1, Len(a)) = a

\* the messages C13 speaks of: strings of at most 255 bytes, symbols of at
\* least one byte
InClaimedRange(m) ==
    CASE m.kind \in {"Order", "MarketData"} -> Len(m.symbol) \in 1..255
      [] m.kind = "Error" -> Len(m.error_message) \in 0..255
      [] m.kind = "Heartbeat" -> TRUE

\* C13: for every Order, MarketData, Heartbeat and Error message whose strings
\* are at most 255 bytes long (symbols of 1 to 255 bytes), deserialize applied
\* to the output of serialize succeeds and yields a message equal to the
\* original in every header and body field.
C13_RoundTrip ==
    (cod_pc = "decoded" /\ cod_msg # NullMsg /\ InClaimedRange(cod_msg))
        => (cod_out.ok /\ cod_out.msg = cod_msg)

\* the length of the frame that the kind named by the leading byte of b and
\* the length byte of b require
FrameNeeded(b, kind) ==
    CASE kind = "Order" -> 48 + (IF Len(b) >= 35 THEN b[35] ELSE 0)
      [] kind = "MarketData" -> 51 + (IF Len(b) >= 27 THEN b[27] ELSE 0)
      [] kind = "Heartbeat" -> 26
      [] kind = "Error" -> 31 + (IF Len(b) >= 31 THEN b[31] ELSE 0)

\* C14: decoding never reads a byte at an index >= length(b), and every b
\* shorter than the frame its kind and its own length byte require makes
\* decoding fail rather than return a message.
C14_NoOverread ==
    (cod_pc = "decoded" /\ cod_out.created # "null")
        => /\ ~cod_out.oob
           /\ Len(cod_data) < FrameNeeded(cod_data, cod_out.created) => ~cod_out.ok

\* C15: whenever decoding b succeeds, re-encoding the decoded message yields
\* a prefix of b.
C15_ReencodeIsPrefix ==
    (cod_pc = "decoded" /\ cod_out.ok) => IsPrefix(Serialize(cod_out.msg), cod_data)

\* the length byte of a frame of this kind is present and declares more
\* bytes than remain after it
DeclaredTooLong(b, kind) ==
    LET at == CASE kind = "Order" -> 35 [] kind = "MarketData" -> 27
                [] kind = "Error" -> 31
    IN  Len(b) >= at /\ at + b[at] > Len(b)

\* C16: when a declared string length (order symbol, market-data symbol or
\* error text) exceeds the number of bytes remaining, decoding fails and no
\* message is returned.
C16_TruncatedString ==
    (/\ cod_pc = "decoded"
     /\ cod_out.created \in {"Order", "MarketData", "Error"}
     /\ DeclaredTooLong(cod_data, cod_out.created))
        => ~cod_out.ok

\* C17: createMessage(data) returns no message exactly when data is empty or
\* its leading byte is not one of the enumerated types 1..9, and otherwise an
\* object of the variant the byte selects.
C17_FactoryByLeadingByte ==
    cod_pc = "decoded" =>
        /\ (cod_out.created = "null") <=> (cod_data = <<>> \/ cod_data[1] \notin 1..9)
        /\ cod_out.created # "null" =>
              cod_out.created =
                  (CASE cod_data[1] \in {ORDER_NEW, ORDER_CANCEL, ORDER_REPLACE,
                                         ORDER_FILL} -> "Order"
                     [] cod_data[1] = MARKET_DATA -> "MarketData"
                     [] cod_data[1] = HEARTBEAT -> "Heartbeat"
                     [] cod_data[1] = ERROR -> "Error")

\* C18: for every well-formed frame, the message handleMessage hands to the
\* callback carries the header and body fields encoded in the received bytes.
C18_HandlerDecodes ==
    (cod_pc = "handled" /\ cod_msg # NullMsg /\ InClaimedRange(cod_msg))
        => (cod_cb.called /\ cod_cb.msg = cod_msg)

(***************************************************************************)
(* PerformanceMonitor (socket_server.cpp:328-398): a recording thread      *)
(* calls recordLatency and reset, a reading thread calls the getters.      *)
(* Latencies are whole microseconds; a returned double is the exact        *)
(* quotient num / den.  recordLatency compares the size with max_samples,  *)
(* which is MAX_SAMPLES when the samples 1..100 are recorded and the       *)
(* scaled-down MaxSamples when any value may be recorded, so that the      *)
(* window overflows within MaxRecords calls.                               *)
(***************************************************************************)
MonFrame ==
    UNCHANGED <<smVars, owed, msgVars, chainVars, thrVars, thrWorkerVars, valVars,
                codVars, srvVars>>

RECURSIVE SumSeq(_)
\* std::accumulate(begin, end, 0.0)
SumSeq(s) == IF s = <<>> THEN 0 ELSE Head(s) + SumSeq(Tail(s))

\* std::sort(sorted_samples.begin(), sorted_samples.end())
Sorted(s) == SortSeq(s, LAMBDA a, b : a < b)

\* latency_samples_.erase(latency_samples_.begin())
EvictNewest(s) == SubSeq(s, 1, Len(s) - 1)
EvictOldest(s) == Tail(s)

\* the body of getAverageLatency under the lock
AverageOf(s) ==
    IF s = <<>> THEN [num |-> 0, den |-> 1] ELSE [num |-> SumSeq(s), den |-> Len(s)]

\* static_cast<size_t>(size * 0.95) and static_cast<size_t>(size * 0.99): for every
\* size up to MAX_SAMPLES the truncated double product equals the integer quotient
PercentileIndex(n, pct) == (n * pct) \div 100

\* sorted_samples[index], zero-based
PercentileOf(s, pct) == [num |-> Sorted(s)[PercentileIndex(Len(s), pct) + 1], den |-> 1]

\* the values a recordLatency call may be given
SampleValues == 1..MaxSamples

\* three orders of the samples 1..100: ascending, descending, interleaved
SampleOrders ==
    <<[i \in 1..100 |-> i],
      [i \in 1..100 |-> 101 - i],
      [i \in 1..100 |-> ((i * 37) % 100) + 1]>>

MonInit ==
    /\ SMInit /\ CodIdle /\ SrvIdle /\ MsgIdle /\ ChainIdle /\ ThrIdle /\ ThrWorkersIdle
    /\ ValIdle
    /\ latency_samples_ = <<>>
    /\ stats_mutex_ = "free"
    /\ mon_pc = "idle"
    /\ mon_ret = NoRet
    /\ mon_recorded = <<>>
    /\ mon_feed \in 0..Len(SampleOrders)
    /\ max_samples = IF mon_feed = 0 THEN MaxSamples ELSE MAX_SAMPLES

\* void recordLatency(double latency_us)
RecordLatency(v) ==
    /\ stats_mutex_ = "free"
    /\ IF mon_feed = 0
       THEN /\ Len(mon_recorded) < MaxRecords
            /\ v \in SampleValues
       ELSE /\ Len(mon_recorded) < Len(SampleOrders[mon_feed])
            /\ v = SampleOrders[mon_feed][Len(mon_recorded) + 1]
    /\ latency_samples_' =
          Append(IF Len(latency_samples_) >= max_samples
                 THEN EvictOldest(latency_samples_)
                 ELSE latency_samples_, v)
    /\ mon_recorded' = Append(mon_recorded, v)
    /\ mon_ret' = [op |-> "record", num |-> 0, den |-> 1]
    /\ UNCHANGED <<stats_mutex_, max_samples, mon_pc, mon_feed>>
    /\ MonFrame

\* void reset()
ResetMonitor ==
    /\ stats_mutex_ = "free"
    /\ latency_samples_' = <<>>
    /\ mon_recorded' = <<>>
    /\ mon_ret' = [op |-> "reset", num |-> 0, den |-> 1]
    /\ UNCHANGED <<stats_mutex_, max_samples, mon_pc, mon_feed>>
    /\ MonFrame

\* double getAverageLatency() const, called by the reading thread
GetAverageLatency ==
    /\ mon_pc = "idle"
    /\ stats_mutex_ = "free"
    /\ mon_ret' = [op |-> "avg"] @@ AverageOf(latency_samples_)
    /\ UNCHANGED <<latency_samples_, stats_mutex_, max_samples, mon_pc, mon_recorded,
                   mon_feed>>
    /\ MonFrame

\* getP95Latency (pct = 95, least = 20) and getP99Latency (pct = 99, least = 100):
\* with fewer than least samples the call goes on to getAverageLatency with
\* stats_mutex_ still locked.  Locking a std::mutex the thread already owns is
\* undefined: the thread blocks on its own lock, or the second lock goes through.
GetPercentile(op, pct, least) ==
    /\ mon_pc = "idle"
    /\ stats_mutex_ = "free"
    /\ IF Len(latency_samples_) < least
       THEN /\ stats_mutex_' = "reader"
            /\ mon_pc' \in {op \o "_deadlocked", op \o "_relocked"}
            /\ UNCHANGED mon_ret
       ELSE /\ mon_ret' = [op |-> op] @@ PercentileOf(latency_samples_, pct)
            /\ UNCHANGED <<stats_mutex_, mon_pc>>
    /\ UNCHANGED <<latency_samples_, max_samples, mon_recorded, mon_feed>>
    /\ MonFrame

GetP95Latency == GetPercentile("p95", 95, 20)

GetP99Latency == GetPercentile("p99", 99, 100)

\* the nested getAverageLatency when its lock went through, and the return
RelockedAverage ==
    /\ mon_pc \in {"p95_relocked", "p99_relocked"}
    /\ mon_ret' = [op |-> IF mon_pc = "p95_relocked" THEN "p95" ELSE "p99"]
                      @@ AverageOf(latency_samples_)
    /\ stats_mutex_' = "free"
    /\ mon_pc' = "idle"
    /\ UNCHANGED <<latency_samples_, max_samples, mon_recorded, mon_feed>>
    /\ MonFrame

MonNext ==
    \/ \E v \in (SampleValues \cup (1..100)) : RecordLatency(v)
    \/ ResetMonitor
    \/ GetAverageLatency
    \/ GetP95Latency
    \/ GetP99Latency
    \/ RelockedAverage

SpecMonitor == MonInit /\ [][MonNext]_vars

(***************************************************************************)
(* SocketServer (socket_server.cpp:19-229): the thread that calls          *)
(* initialize, start and stop, accept_thread_, the worker threads, and the *)
(* peers that connect to the listening socket and send frames.  System     *)
(* calls on valid descriptors succeed (a failed initialize leaves the      *)
(* server as before it).                                                   *)
(***************************************************************************)
SrvFrame ==
    UNCHANGED <<smVars, owed, msgVars, chainVars, thrVars, thrWorkerVars, valVars,
                codVars, monVars>>

\* max_connections_ as initialize(port, max_connections) sets it
max_connections_ == MaxConnections

\* the client descriptors the server owns: acceptLoop and handleConnection never
\* call accept(), the only descriptor handleConnection is given is server_fd_
AcceptedClients == {}

\* the frames read from connections and handed on: workerLoop reads nothing
FramesHandled == <<>>

\* epoll_wait reports server_fd_: it is registered and a connection waits in its
\* accept queue (level-triggered, or edge-triggered and just added again with
\* the queue still non-empty)
ListenerReady == epoll_reg # "none" /\ backlog > 0

\* while (running_.load()) in workerLoop
WorkerContinuesAlways(r) == TRUE
WorkerContinues(r) == r

SrvInit ==
    /\ SMInit /\ CodIdle /\ MonIdle /\ MsgIdle /\ ChainIdle /\ ThrIdle /\ ThrWorkersIdle
    /\ ValIdle
    /\ SrvIdle

\* bool initialize(port, max_connections): socket, bind, listen, epoll_create1,
\* EPOLL_CTL_ADD of server_fd_ with EPOLLIN
Initialize ==
    /\ srv_ctl_pc = "idle"
    /\ server_fd_ = "unset"
    /\ ~srv_running_
    /\ server_fd_' = "open"
    /\ epoll_fd_' = "open"
    /\ epoll_reg' = "LT"
    /\ UNCHANGED <<srv_running_, connection_count_, backlog, srv_arrived, accept_pc,
                   worker_pc, srv_ctl_pc>>
    /\ SrvFrame

\* void start()
Start ==
    /\ srv_ctl_pc = "idle"
    /\ IF srv_running_
       THEN UNCHANGED <<srv_running_, accept_pc, worker_pc>>
       ELSE /\ srv_running_' = TRUE
            /\ accept_pc' = "loop"
            /\ worker_pc' = [w \in SrvWorkers |-> "loop"]
    /\ UNCHANGED <<server_fd_, epoll_fd_, epoll_reg, connection_count_, backlog,
                   srv_arrived, srv_ctl_pc>>
    /\ SrvFrame

\* void stop(): the early return, or running_ = false
StopBegin ==
    /\ srv_ctl_pc = "idle"
    /\ IF ~srv_running_
       THEN UNCHANGED <<srv_running_, srv_ctl_pc>>
       ELSE /\ srv_running_' = FALSE
            /\ srv_ctl_pc' = "join_accept"
    /\ UNCHANGED <<server_fd_, epoll_fd_, epoll_reg, connection_count_, backlog,
                   srv_arrived, accept_pc, worker_pc>>
    /\ SrvFrame

\* stop(): accept_thread_.join()
StopJoinAccept ==
    /\ srv_ctl_pc = "join_accept"
    /\ accept_pc = "exited"
    /\ accept_pc' = "none"
    /\ srv_ctl_pc' = "join_workers"
    /\ UNCHANGED <<srv_running_, server_fd_, epoll_fd_, epoll_reg, connection_count_,
                   backlog, srv_arrived, worker_pc>>
    /\ SrvFrame

\* stop(): join every worker, worker_threads_.clear(), return
StopJoinWorkers ==
    /\ srv_ctl_pc = "join_workers"
    /\ \A w \in SrvWorkers : worker_pc[w] = "exited"
    /\ worker_pc' = [w \in SrvWorkers |-> "none"]
    /\ srv_ctl_pc' = "idle"
    /\ UNCHANGED <<srv_running_, server_fd_, epoll_fd_, epoll_reg, connection_count_,
                   backlog, srv_arrived, accept_pc>>
    /\ SrvFrame

\* acceptLoop: while (running_.load())
AcceptWhile ==
    /\ accept_pc = "loop"
    /\ accept_pc' = IF srv_running_ THEN "wait" ELSE "exited"
    /\ UNCHANGED <<srv_running_, server_fd_, epoll_fd_, epoll_reg, connection_count_,
                   backlog, srv_arrived, worker_pc, srv_ctl_pc>>
    /\ SrvFrame

\* handleConnection(server_fd_): at the cap close(client_fd), which is the
\* listening socket (the kernel drops it from the epoll set and resets the
\* connections waiting on it); below the cap EPOLL_CTL_ADD fails with EEXIST, the
\* descriptor is deleted and added again edge-triggered, and the count goes up
HandleConnection ==
    IF connection_count_ >= max_connections_
    THEN /\ server_fd_' = "closed"
         /\ epoll_reg' = "none"
         /\ backlog' = 0
         /\ UNCHANGED connection_count_
    ELSE /\ epoll_reg' = "ET"
         /\ connection_count_' = connection_count_ + 1
         /\ UNCHANGED <<server_fd_, backlog>>

\* acceptLoop: epoll_wait with a 1 ms timeout, then the loop over the events
AcceptWait ==
    /\ accept_pc = "wait"
    /\ IF epoll_fd_ # "open"
       THEN /\ accept_pc' = "exited"
            /\ UNCHANGED <<server_fd_, epoll_reg, connection_count_, backlog>>
       ELSE /\ accept_pc' = "loop"
            /\ IF ListenerReady
               THEN HandleConnection
               ELSE UNCHANGED <<server_fd_, epoll_reg, connection_count_, backlog>>
    /\ UNCHANGED <<srv_running_, epoll_fd_, srv_arrived, worker_pc, srv_ctl_pc>>
    /\ SrvFrame

\* workerLoop: while (running_.load()) sleep_for(1 us)
WorkerLoop(w) ==
    /\ worker_pc[w] = "loop"
    /\ worker_pc' = [worker_pc EXCEPT ![w] = IF WorkerContinues(srv_running_)
                                             THEN "loop" ELSE "exited"]
    /\ UNCHANGED <<srv_running_, server_fd_, epoll_fd_, epoll_reg, connection_count_,
                   backlog, srv_arrived, accept_pc, srv_ctl_pc>>
    /\ SrvFrame

\* a peer connects: the kernel completes the handshake on the listening socket
ClientConnect ==
    /\ server_fd_ = "open"
    /\ backlog < MaxClients
    /\ backlog' = backlog + 1
    /\ UNCHANGED <<srv_running_, server_fd_, epoll_fd_, epoll_reg, connection_count_,
                   srv_arrived, accept_pc, worker_pc, srv_ctl_pc>>
    /\ SrvFrame

\* a connected peer sends one complete frame
ClientSend ==
    /\ backlog > 0
    /\ srv_arrived < MaxFrames
    /\ srv_arrived' = srv_arrived + 1
    /\ UNCHANGED <<srv_running_, server_fd_, epoll_fd_, epoll_reg, connection_count_,
                   backlog, accept_pc, worker_pc, srv_ctl_pc>>
    /\ SrvFrame

SrvNext ==
    \/ Initialize
    \/ Start
    \/ StopBegin
    \/ StopJoinAccept
    \/ StopJoinWorkers
    \/ AcceptWhile
    \/ AcceptWait
    \/ \E w \in SrvWorkers : WorkerLoop(w)
    \/ ClientConnect
    \/ ClientSend

SpecServer == SrvInit /\ [][SrvNext]_vars

\* the threads are scheduled again and again, and a join returns once its
\* thread has ended
SrvFairness ==
    /\ WF_vars(AcceptWhile)
    /\ WF_vars(AcceptWait)
    /\ \A w \in SrvWorkers : WF_vars(WorkerLoop(w))
    /\ WF_vars(StopJoinAccept)
    /\ WF_vars(StopJoinWorkers)

FairSpecServer == SpecServer /\ SrvFairness

(***************************************************************************)
(* Start-up and shutdown of the process as main.cpp runs them: the         *)
(* ServiceManager's start_all/stop_all with its dispatcher thread next to  *)
(* the SocketServer with its threads and peers (no message is sent to a    *)
(* service here).                                                          *)
(***************************************************************************)
ShutdownNext ==
    \/ SrvNext
    \/ \E c \in Callers : StartAllBegin(c)
    \/ \E c \in Callers : StartAllFinish(c)
    \/ \E c \in Callers : StopAllFlag(c)
    \/ \E c \in Callers : StopAllLocked(c)
    \/ DispWhile
    \/ DispEnter

FairSpecShutdown == SrvInit /\ [][ShutdownNext]_vars /\ Fairness /\ SrvFairness

(***************************************************************************)
(* Broadcast and the locks held around a service's process.                *)
(***************************************************************************)
\* a step of broadcastMessage with a present message
BroadcastStep == next_msg' = next_msg + 1 /\ enqueued' = enqueued

\* the process calls a step appended to the call record
NewCalls == SubSeq(delivered', Len(delivered) + 1, Len(delivered'))

\* C21: broadcast(M) invokes process(M) exactly once on every service that is
\* registered and running at the call and on no service that is not running,
\* all of it inside the call, and it leaves the dispatcher FIFO unchanged.
C21_Broadcast ==
    [][BroadcastStep =>
         /\ delivered' = delivered \o NewCalls
         /\ \A i \in DOMAIN NewCalls :
               /\ NewCalls[i].name \in Registered
               /\ NewCalls[i].obj = services_[NewCalls[i].name]
               /\ NewCalls[i].msg = next_msg'
               /\ NewCalls[i].via = "broadcast"
         /\ \A n \in Registered :
               Cardinality({i \in DOMAIN NewCalls : NewCalls[i].name = n})
                   = IF obj_running[services_[n]] THEN 1 ELSE 0
         /\ message_queue_' = message_queue_
         /\ caller_pc' = caller_pc]_vars

\* C21 witness: a broadcast reached a running service and skipped a registered
\* service that is not running, while an entry waits in the FIFO.
C21_Witness ==
    /\ message_queue_ # <<>>
    /\ \E i \in DOMAIN delivered, n \in Registered :
          /\ delivered[i].via = "broadcast"
          /\ ~obj_running[services_[n]]
          /\ \A j \in DOMAIN delivered :
                ~(delivered[j].name = n /\ delivered[j].msg = delivered[i].msg)

\* C30: no thread holds the registry mutex (nor the queue mutex) while it
\* executes a service's process, on the dispatcher path and on the broadcast
\* path alike.
C30_NoLockDuringProcess ==
    \A i \in DOMAIN delivered : delivered[i].held = {}

(***************************************************************************)
(* The latency window and the percentiles.                                 *)
(***************************************************************************)
\* the last k elements of s
LastN(s, k) == SubSeq(s, Len(s) - k + 1, Len(s))

Min(a, b) == IF a <= b THEN a ELSE b

\* C27: after any sequence of record_latency calls the window holds at most
\* MAX_SAMPLES values, and they are exactly the most recent min(k, MAX_SAMPLES)
\* of the k recorded values, in recording order.
C27_Window ==
    /\ Len(latency_samples_) <= max_samples
    /\ latency_samples_ = LastN(mon_recorded, Min(Len(mon_recorded), max_samples))

\* C27 witness: more values were recorded than the window holds, the last of
\* them pairwise different, so that order and eviction side both show.
C27_Witness ==
    /\ Len(mon_recorded) >= max_samples + 2
    /\ Cardinality({latency_samples_[i] : i \in DOMAIN latency_samples_})
          = Len(latency_samples_)
    /\ mon_recorded[1] # mon_recorded[Len(mon_recorded)]

\* equality of two quotients
RatEq(a, b) == a.num * b.den = b.num * a.den

\* the arithmetic mean of s, or 0 if s is empty
Mean(s) == IF Len(s) = 0 THEN [num |-> 0, den |-> 1] ELSE [num |-> SumSeq(s), den |-> Len(s)]

\* the element at zero-based index floor(pct * n / 100) of the ascending samples
Ranked(s, pct) == [num |-> Sorted(s)[(pct * Len(s)) \div 100 + 1], den |-> 1]

\* C28: with n samples p95() returns the element at zero-based index
\* floor(0.95 n) of the sorted samples when n >= 20 and average_latency() when
\* n < 20, p99() the element at index floor(0.99 n) when n >= 100 and
\* average_latency() when n < 100, and average_latency() the mean, or 0 when
\* there is no sample; each of these calls returns.
C28_Percentiles ==
    /\ mon_pc \notin {"p95_deadlocked", "p99_deadlocked"}
    /\ mon_ret.op = "avg" => RatEq(mon_ret, Mean(latency_samples_))
    /\ mon_ret.op = "p95" =>
          RatEq(mon_ret, IF Len(latency_samples_) >= 20
                         THEN Ranked(latency_samples_, 95)
                         ELSE Mean(latency_samples_))
    /\ mon_ret.op = "p99" =>
          RatEq(mon_ret, IF Len(latency_samples_) >= 100
                         THEN Ranked(latency_samples_, 99)
                         ELSE Mean(latency_samples_))

\* exactly the samples 1, 2, ..., 100 were recorded into an empty monitor
OneToHundred ==
    /\ Len(mon_recorded) = 100
    /\ latency_samples_ = mon_recorded
    /\ {mon_recorded[i] : i \in DOMAIN mon_recorded} = 1..100

\* C29: after recording exactly the samples 1..100, in any order, p95() = 95,
\* p99() = 99 and average_latency() = 50.5.
C29_OneToHundred ==
    OneToHundred =>
        /\ mon_ret.op = "p95" => RatEq(mon_ret, [num |-> 95, den |-> 1])
        /\ mon_ret.op = "p99" => RatEq(mon_ret, [num |-> 99, den |-> 1])
        /\ mon_ret.op = "avg" => RatEq(mon_ret, [num |-> 101, den |-> 2])

(***************************************************************************)
(* The socket server: connections, frames, shutdown.                       *)
(***************************************************************************)
\* a step in which the acceptor handles a ready event of the listener
AcceptsConnection == accept_pc = "wait" /\ accept_pc' = "loop" /\ ListenerReady

\* C22: active_connections never exceeds max_connections, and a connection
\* arriving while active_connections >= max_connections has its own client
\* socket closed (the listener stays as it is) and leaves the count unchanged.
C22_CapClosesClient ==
    [][/\ connection_count_' <= max_connections_
       /\ (AcceptsConnection /\ connection_count_ >= max_connections_) =>
             /\ connection_count_' = connection_count_
             /\ server_fd_' = server_fd_
             /\ epoll_reg' = epoll_reg]_vars

\* C23: active_connections equals the number of client connections that are
\* open and registered with the notifier.
C23_CountIsOpenClients == connection_count_ = Cardinality(AcceptedClients)

\* C24: every complete frame received on a connection is eventually read,
\* decoded and handed on exactly once, in arrival order, while the server runs.
C24_FramesProcessed ==
    [](srv_arrived > 0 /\ srv_running_
          => <>(Len(FramesHandled) = srv_arrived \/ ~srv_running_))

\* the step in which stop() returns after joining its threads
StopReturns == srv_ctl_pc = "join_workers" /\ srv_ctl_pc' = "idle"

AllThreadsJoined == accept_pc = "none" /\ \A w \in SrvWorkers : worker_pc[w] = "none"

C26_StopClosesSockets ==
    [][StopReturns =>
          /\ server_fd_' # "open"
          /\ epoll_fd_' # "open"
          /\ AcceptedClients = {}]_vars

(***************************************************************************)
(* The registry mutex and the queue mutex.  A critical section of          *)
(* queue_mutex_ (sendMessage; the front/pop of processMessageQueue, whose  *)
(* wait_for gives the mutex up and times out) takes no other lock and      *)
(* calls nothing that blocks, so it is one step of the model; the same     *)
(* holds for every critical section of services_mutex_ but the one of      *)
(* startAllServices, which spans two steps.                                *)
(***************************************************************************)
\* c has called stopAllServices and waits for services_mutex_
WaitsForRegistry(c) == caller_pc[c] = "stopAll"

C32_WindowUnderMutex ==
    /\ \A i \in 1..Len(thr_log) : \A j \in i..Len(thr_log) :
          (\A k \in (i + 1)..j : ~thr_log[k].reset)
              => Cardinality(Continues(thr_log, i, j)) <= max_messages_per_second_
    /\ \A i \in 1..Len(thr_log) : \A j \in (i + 1)..Len(thr_log) :
          (thr_log[i].reset /\ thr_log[j].reset)
              => thr_log[j].t - thr_log[i].t >= WindowMs

(***************************************************************************)
(* The Validator in front of the Throttler.                                *)
(***************************************************************************)
\* the step in which process runs the chain on the context
ProcessStep == ctx # NoCtx /\ chain_ret = "none" /\ chain_ret' # "none"

\* in that step a Validator with no Throttler before it in the chain stopped
RejectedBeforeThrottler ==
    \E k \in 1..Len(chain_trace') :
        /\ chain_trace'[k].kind = "Validation"
        /\ ~chain_trace'[k].ret
        /\ \A j \in 1..(k - 1) : interceptors_[j] # "Throttling"

\* C33: in a chain where the Validator precedes the Throttler, a message the
\* Validator rejects leaves the throttler's count and window start unchanged.
C33_RejectedKeepsQuota ==
    [][(ProcessStep /\ RejectedBeforeThrottler) =>
          /\ message_count_' = message_count_
          /\ last_check_' = last_check_]_vars

\* C33 witness: a chain [Validator, Throttler, ...] with quota left has just
\* rejected a message in the Validator, a full window after the window start.
C33_Witness ==
    /\ chain_ret = "false"
    /\ Len(interceptors_) >= 2
    /\ interceptors_[1] = "Validation"
    /\ interceptors_[2] = "Throttling"
    /\ Len(chain_trace) = 1
    /\ message_count_ < max_messages_per_second_
    /\ now - last_check_ >= WindowMs

(***************************************************************************)
(* Messages for absent or stopped services.                                *)
(***************************************************************************)
\* the dispatcher is at its test of the service it looked up, and the service
\* is absent or not running
DispatcherFindsStopped ==
    disp_pc = "check" /\ (disp_service = NoObj \/ ~obj_running[disp_service])

\* C34: a queued message whose service is absent or not running when the
\* dispatcher reaches it is removed without being processed and the dispatcher
\* goes on; no service executes the body of process after its stop() has
\* returned.
C34_StoppedNeverProcesses ==
    [][/\ (DispatcherFindsStopped /\ disp_pc' # disp_pc) =>
             /\ delivered' = delivered
             /\ message_queue_' = message_queue_
             /\ disp_pc' = "after"
       /\ disp_pc' = "process" => obj_running'[disp_service']]_vars

(***************************************************************************)
(* unregister.                                                             *)
(***************************************************************************)
\* the step in which unregister removes the service registered under n
Unregisters(n) == services_[n] # NoObj /\ services_'[n] = NoObj

\* the running services registered under a name other than n
OthersRunning(n) ==
    {m \in Names \ {n} : services_[m] # NoObj /\ obj_running[services_[m]]}

\* C35: after unregister(name) returns the service that was registered under
\* name is not running (and stays so), get(name) returns nothing and
\* active_count() no longer counts it; unregister of a name that is not
\* registered changes nothing.
C35_Unregister ==
    /\ [][/\ \A n \in Names : Unregisters(n) =>
                /\ ~obj_running'[services_[n]]
                /\ ActiveCount' = Cardinality(OthersRunning(n))
                /\ \A m \in Names \ {n} : services_'[m] = services_[m]
          /\ \A o \in Objs : (o \notin RegisteredObjs /\ ~obj_running[o])
                                => ~obj_running'[o]]_vars
    /\ [](\A n \in Names \ Registered :
             /\ UnregisterResult(services_, obj_running, n).services = services_
             /\ UnregisterResult(services_, obj_running, n).running = obj_running)

\* C35 witness: a service that was running and has processed a message is
\* stopped and its name is no longer registered, while another service is
\* still registered and running.
C35_Witness ==
    /\ ActiveCount >= 1
    /\ \E i \in DOMAIN delivered :
          /\ services_[delivered[i].name] = NoObj
          /\ ~obj_running[delivered[i].obj]

(***************************************************************************)
(* Restart of the registry.                                                *)
(***************************************************************************)
\* C36: whenever start_all was the last of start_all/stop_all to complete (no
\* stop_all is in progress when it returns), a dispatcher task is alive, also
\* after earlier stop_all calls.
C36_DispatcherAfterRestart ==
    [][\A c \in Callers :
          (StartAllReturns(c) /\ \A d \in Callers \ {c} : caller_pc[d] = "idle")
              => DispatcherAlive']_vars

(***************************************************************************)
(* The statistics mutex.                                                   *)
(***************************************************************************)
\* C37: no PerformanceMonitor operation locks the statistics mutex while it
\* already holds it: an operation that holds stats_mutex_ is never at a
\* nested lock of stats_mutex_ (so that every operation returns).
C37_NoSelfRelock == ~(stats_mutex_ = "reader" /\ mon_pc # "idle")

(***************************************************************************)
(* The listening socket.                                                   *)
(***************************************************************************)
\* C38: while the server is running the listening socket stays open and
\* registered with the notifier for read-readiness: the acceptor never closes
\* it or takes it out of the notifier's set.
C38_ListenerStaysOpen ==
    (srv_running_ /\ server_fd_ # "unset") =>
        (server_fd_ = "open" /\ epoll_reg # "none")

(***************************************************************************)
(* start_all and stop_all running concurrently.                            *)
(***************************************************************************)
AllRegisteredRunning == \A n \in Registered : obj_running[services_[n]]
NoRegisteredRunning == \A n \in Registered : ~obj_running[services_[n]]

\* C39: once a start_all and a stop_all that ran concurrently have both
\* returned (the step in which the later of them returns, no call being in
\* progress afterwards), the registry is running with every registered
\* service running, or not running with no service running.
C39_ConsistentAfterBoth ==
    [][(/\ \E c \in Callers : StartAllReturns(c) \/ StopAllReturns(c)
        /\ \A d \in Callers : caller_pc'[d] = "idle")
          => \/ running_' /\ AllRegisteredRunning'
             \/ ~running_' /\ NoRegisteredRunning']_vars

(***************************************************************************)
(* Registration after start_all.                                           *)
(***************************************************************************)
\* the step that registers a new service object under n
Registers(n) == services_'[n] # services_[n] /\ services_'[n] # NoObj

\* the step in which a start_all starts the registered services
StartAllStarts == \E c \in Callers : caller_pc[c] = "idle" /\ caller_pc'[c] = "startAll"

\* the dispatcher leaves its test with a registered service that is not running
DispatcherFindsNotStarted ==
    /\ disp_pc = "check"
    /\ disp_pc' # "check"
    /\ disp_service # NoObj
    /\ ~obj_running[disp_service]

\* C40: registering a service (under a new name or replacing one) does not
\* start it; a service that is not running becomes running only in a
\* start_all; and a message the dispatcher takes for a service that is not
\* running is dropped: not passed to the service and not put back in the queue.
C40_RegisteredNotStarted ==
    [][/\ \A n \in Names : Registers(n) => ~obj_running'[services_'[n]]
       /\ \A o \in Objs : (~obj_running[o] /\ obj_running'[o]) => StartAllStarts
       /\ DispatcherFindsNotStarted =>
             /\ delivered' = delivered
             /\ message_queue_' = message_queue_
             /\ disp_pc' = "after"]_vars

\* C40 witness: while another service is running (started by start_all), a
\* service registered afterwards is not running, and the dispatcher has taken
\* a message for its name and dropped it.
C40_Witness ==
    /\ running_
    /\ ActiveCount >= 1
    /\ disp_pc = "after"
    /\ disp_service # NoObj
    /\ services_[disp_item[1]] = disp_service
    /\ ~obj_running[disp_service]
    /\ ~DeliveredTo(disp_item[1], disp_item[2])
    /\ ~Queued(disp_item[1], disp_item[2])

====
